---- MODULE Spec2Model ----
(***************************************************************************)
(* Model of the CSOPESY emulator (mike-jgo/csopesy_mp): the demand-paged   *)
(* memory manager (Project1/MemoryManager.cpp), the instruction            *)
(* interpreter (Project1/Instruction.cpp) and the tick-driven scheduler    *)
(* with its command thread (Project1/emulator.cpp).                        *)
(***************************************************************************)
EXTENDS Integers, Sequences, FiniteSets, TLC

VARIABLES
    systemConfig,      \* Config: num_cpu, scheduler, quantum_cycles, memory sizes
    processTable,      \* std::deque<Process>, 1-based sequence of process records
    frame_table,       \* MemoryManager::frame_table, frame index -> FrameTableEntry
    ram,               \* MemoryManager::ram, physical address -> int
    backing_store,     \* MemoryManager::backing_store, <<pid, page>> -> page data
    stats,             \* MemoryManager::stats (pages_paged_in, pages_paged_out)
    global_tick,       \* the clock
    cpuCores,          \* std::vector<CPUCore>: running (table index, 0 = nullptr), quantum_left
    rrCursor,          \* the round-robin cursor, a 0-based table offset
    nextPID,           \* the next pid to hand out
    schedulerRunning,  \* std::atomic<bool>
    autoCreateRunning, \* std::atomic<bool>: scheduler start / stop
    schedulerThread,   \* where the scheduler thread is: pc, core of the tick's loop, rescheduleNeeded,
                       \* and the name of the process the batch creation is building
    processTableMutex, \* "free", or the thread that holds it across steps
    mem_mutex,         \* MemoryManager::mem_mutex: "free", or the thread that holds it across steps
    current_process,   \* the process screen the console is attached to, "" in the main console
    commandThread,     \* where the command thread is: pc, the process and instruction of a step
    pending,           \* the commands still to be typed in the main console, in order
    hist,              \* history: the tick of each creation, the number of step commands,
                       \* the preempted processes that wait for their next dispatch
    shadow             \* history: pid -> address -> last value successfully written

vars == <<systemConfig, processTable, frame_table, ram, backing_store, stats,
          global_tick, cpuCores, rrCursor, nextPID, schedulerRunning, autoCreateRunning,
          schedulerThread, processTableMutex, mem_mutex, current_process, commandThread, pending, hist, shadow>>

----------------------------------------------------------------------------
(* Bounds of the model *)

\* The memory-level specification stops the clock at this tick.
MemMaxTick == 2
\* No access is issued that would take pages_paged_in beyond this.
MaxPagedIn == 4
\* The scheduler starts no tick beyond this one.
MaxTick == 6
\* The user types at most this many step commands.
MaxSteps == 2

\* The batch creation stops at this many processes in the table.
MaxProcs == 3
\* A drawn instruction is one of the first lines of the pool, this many.
MaxPoolLine == 2

----------------------------------------------------------------------------
(* Memory manager: MemoryManager.h, MemoryManager.cpp *)

NoFrame == -1

NewPTE == [frame_num |-> NoFrame, valid |-> FALSE, dirty |-> FALSE, last_accessed |-> 0]

NewFTE == [pid |-> -1, page_num |-> -1, occupied |-> FALSE]

frame_size == systemConfig.mem_per_frame

total_frames == systemConfig.max_overall_mem \div systemConfig.mem_per_frame

Frames == 0 .. (total_frames - 1)

\* The memory manager's view of the world: the process table it searches
\* (T), its own members (ft, ram, bs, stats) and the clock it stamps with.
MemState == [T |-> processTable, ft |-> frame_table, ram |-> ram,
             bs |-> backing_store, stats |-> stats, tick |-> global_tick]

\* for (auto& p : processTable) if (p.pid == pid) { proc = &p; break; }
\* 0 stands for nullptr.
FindPid(T, pid) ==
    IF \E i \in 1..Len(T) : T[i].pid = pid
    THEN CHOOSE i \in 1..Len(T) : T[i].pid = pid /\ \A j \in 1..(i-1) : T[j].pid # pid
    ELSE 0

\* void MemoryManager::initializePageTable(Process& p, int required_pages)
initializePageTable(p, required_pages) ==
    [p EXCEPT !.page_table = [i \in 0..(required_pages - 1) |-> NewPTE]]

\* The value of an expression evaluated once: Only({F(x) : x \in {e}}) is
\* F(e).
Only(S) == CHOOSE y \in S : TRUE

\* std::vector<int>(frame_size, 0)
ZeroPage == [k \in 0..(frame_size - 1) |-> 0]

\* Mutant of lruScan: among equal stamps the last frame is the victim.
RECURSIVE lruScan_lastOnTie(_, _, _, _)
lruScan_lastOnTie(M, i, min_tick, victim_frame) ==
    IF i >= total_frames THEN victim_frame
    ELSE LET pi == FindPid(M.T, M.ft[i].pid)
             page == M.ft[i].page_num
         IN IF pi # 0 /\ page \in DOMAIN M.T[pi].page_table
            THEN LET last == M.T[pi].page_table[page].last_accessed
                 IN IF min_tick = -1 \/ last <= min_tick
                    THEN lruScan_lastOnTie(M, i + 1, last, i)
                    ELSE lruScan_lastOnTie(M, i + 1, min_tick, victim_frame)
            ELSE lruScan_lastOnTie(M, i + 1, min_tick, victim_frame)

\* The scan of evictVictim: frame i replaces the victim when its owner's
\* entry has a strictly smaller stamp than the smallest seen so far.
\* min_tick = -1 stands for the initial "max value".
RECURSIVE lruScan(_, _, _, _)
lruScan(M, i, min_tick, victim_frame) ==
    IF i >= total_frames THEN victim_frame
    ELSE LET pi == FindPid(M.T, M.ft[i].pid)
             page == M.ft[i].page_num
         IN IF pi # 0 /\ page \in DOMAIN M.T[pi].page_table
            THEN LET last == M.T[pi].page_table[page].last_accessed
                 IN IF min_tick = -1 \/ last < min_tick
                    THEN lruScan(M, i + 1, last, i)
                    ELSE lruScan(M, i + 1, min_tick, victim_frame)
            ELSE lruScan(M, i + 1, min_tick, victim_frame)

\* Mutant of writeBack: a clean page is written back and counted too.
writeBack_always(M, victim_frame, v_pid, v_page) ==
    LET phys_start == victim_frame * frame_size
        page_data == [k \in 0..(frame_size - 1) |-> M.ram[phys_start + k]]
        key == <<v_pid, v_page>>
    IN [M EXCEPT !.bs = [kk \in DOMAIN M.bs \cup {key} |->
                            IF kk = key THEN page_data ELSE M.bs[kk]],
                 !.stats.pages_paged_out = @ + 1]

\* Mutant of writeBack: the dirty page is dropped instead of written back.
writeBack_dropped(M, victim_frame, v_pid, v_page) == M

\* if (pte.dirty) { backing_store[key] = page_data; stats.pages_paged_out++; }
writeBack(M, victim_frame, v_pid, v_page) ==
    LET pi == FindPid(M.T, v_pid)
        phys_start == victim_frame * frame_size
        page_data == [k \in 0..(frame_size - 1) |-> M.ram[phys_start + k]]
        key == <<v_pid, v_page>>
    IN IF M.T[pi].page_table[v_page].dirty
       THEN [M EXCEPT !.bs = [kk \in DOMAIN M.bs \cup {key} |->
                                 IF kk = key THEN page_data ELSE M.bs[kk]],
                      !.stats.pages_paged_out = @ + 1]
       ELSE M

\* Mutant of invalidate: the victim's entry keeps its dirty bit.
invalidate_keepsDirty(M, v_pid, v_page) ==
    LET pi == FindPid(M.T, v_pid)
    IN [M EXCEPT !.T[pi].page_table[v_page].valid = FALSE,
                 !.T[pi].page_table[v_page].frame_num = NoFrame]

\* Mutant of invalidate: the victim's entry keeps valid and frame_num.
invalidate_keepsValid(M, v_pid, v_page) ==
    LET pi == FindPid(M.T, v_pid)
    IN [M EXCEPT !.T[pi].page_table[v_page].dirty = FALSE]

\* pte.valid = false; pte.frame_num = -1; pte.dirty = false;
invalidate(M, v_pid, v_page) ==
    LET pi == FindPid(M.T, v_pid)
    IN [M EXCEPT !.T[pi].page_table[v_page].valid = FALSE,
                 !.T[pi].page_table[v_page].frame_num = NoFrame,
                 !.T[pi].page_table[v_page].dirty = FALSE]

\* The eviction of evictVictim once the victim is chosen: write back,
\* invalidate the owner's entry, free the frame.
evictFrame(M, victim_frame) ==
    LET v_pid == M.ft[victim_frame].pid
        v_page == M.ft[victim_frame].page_num
        pi == FindPid(M.T, v_pid)
    IN IF pi = 0
       THEN [frame |-> victim_frame, M |-> [M EXCEPT !.ft[victim_frame].occupied = FALSE]]
       ELSE Only({ [frame |-> victim_frame,
                    M |-> [M1 EXCEPT !.ft[victim_frame].occupied = FALSE]] :
                   M1 \in { invalidate(M0, v_pid, v_page) :
                            M0 \in {writeBack(M, victim_frame, v_pid, v_page)} } })

\* int MemoryManager::evictVictim(): [frame, M]
evictVictim(M) ==
    Only({ evictFrame(M, IF scanned = -1 THEN 0 ELSE scanned) :
           scanned \in {lruScan(M, 0, -1, -1)} })

\* Mutant of allocateFrame: no eviction, -1 when no frame is free.
allocateFrame_noEvict(M) ==
    IF \E i \in Frames : ~M.ft[i].occupied
    THEN [frame |-> CHOOSE i \in Frames :
                        ~M.ft[i].occupied /\ \A j \in 0..(i-1) : M.ft[j].occupied,
          M |-> M]
    ELSE [frame |-> -1, M |-> M]

\* int MemoryManager::allocateFrame(): [frame, M]
allocateFrame(M) ==
    IF \E i \in Frames : ~M.ft[i].occupied
    THEN [frame |-> CHOOSE i \in Frames :
                        ~M.ft[i].occupied /\ \A j \in 0..(i-1) : M.ft[j].occupied,
          M |-> M]
    ELSE evictVictim(M)

\* Mutant of loadPage: the frame is always filled with zeros.
loadPage_zeroes(a, pid, page_num) ==
    LET phys_start == a.frame * frame_size
        pi == FindPid(a.M.T, pid)
    IN [ok |-> TRUE,
        M |-> [a.M EXCEPT !.T[pi].page_table[page_num] =
                              [frame_num |-> a.frame, valid |-> TRUE, dirty |-> FALSE,
                               last_accessed |-> a.M.tick],
                          !.ft[a.frame] =
                              [pid |-> pid, page_num |-> page_num, occupied |-> TRUE],
                          !.ram = [x \in DOMAIN a.M.ram |->
                                     IF x >= phys_start /\ x < phys_start + frame_size
                                     THEN 0 ELSE a.M.ram[x]],
                          !.stats.pages_paged_in = @ + 1]]

\* The load of handlePageFault into the allocated frame a.frame: the page
\* comes from the backing store, where a missing page is entered as zeros.
loadPage(a, pid, page_num) ==
    LET key == <<pid, page_num>>
        page_data == IF key \in DOMAIN a.M.bs THEN a.M.bs[key] ELSE ZeroPage
        phys_start == a.frame * frame_size
        pi == FindPid(a.M.T, pid)
    IN [ok |-> TRUE,
        M |-> [T |-> IF pi = 0 THEN a.M.T
                     ELSE [a.M.T EXCEPT ![pi].page_table[page_num] =
                              [frame_num |-> a.frame, valid |-> TRUE, dirty |-> FALSE,
                               last_accessed |-> a.M.tick]],
               ft |-> [a.M.ft EXCEPT ![a.frame] =
                          [pid |-> pid, page_num |-> page_num, occupied |-> TRUE]],
               ram |-> [x \in DOMAIN a.M.ram |->
                          IF x >= phys_start /\ x < phys_start + frame_size
                          THEN page_data[x - phys_start] ELSE a.M.ram[x]],
               bs |-> IF key \in DOMAIN a.M.bs THEN a.M.bs
                      ELSE [kk \in DOMAIN a.M.bs \cup {key} |->
                               IF kk = key THEN ZeroPage ELSE a.M.bs[kk]],
               stats |-> [a.M.stats EXCEPT !.pages_paged_in = @ + 1],
               tick |-> a.M.tick]]

\* bool MemoryManager::handlePageFault(int pid, int page_num): [ok, M]
handlePageFault(M, pid, page_num) ==
    Only({ IF a.frame = -1 THEN [ok |-> FALSE, M |-> a.M]
           ELSE loadPage(a, pid, page_num) :
           a \in {allocateFrame(M)} })

\* The end of access, pf being the outcome of the page fault if there was one.
accessFrame(pf, pi, page_num, offset, write, value) ==
    LET frame_num == pf.M.T[pi].page_table[page_num].frame_num
        phys_addr == frame_num * frame_size + offset
    IN IF ~pf.ok THEN [ok |-> FALSE, value |-> value, M |-> pf.M, err |-> "fault"]
       ELSE IF write
       THEN [ok |-> TRUE, value |-> value,
             M |-> [pf.M EXCEPT !.ram[phys_addr] = value,
                                !.T[pi].page_table[page_num].dirty = TRUE],
             err |-> "none"]
       ELSE [ok |-> TRUE, value |-> pf.M.ram[phys_addr], M |-> pf.M, err |-> "none"]

\* Mutant of access: the entry's last_accessed is not set.
access_noStamp(M, pid, virtual_addr, write, value) ==
    LET page_num == virtual_addr \div frame_size
        offset == virtual_addr % frame_size
        pi == FindPid(M.T, pid)
    IN IF pi = 0 THEN [ok |-> FALSE, value |-> value, M |-> M, err |-> "nopid"]
       ELSE IF virtual_addr >= M.T[pi].memory_required
       THEN [ok |-> FALSE, value |-> value, M |-> M, err |-> "segv"]
       ELSE Only({ accessFrame(pf, pi, page_num, offset, write, value) :
                   pf \in { IF ~M2.T[pi].page_table[page_num].valid
                            THEN handlePageFault(M2, pid, page_num)
                            ELSE [ok |-> TRUE, M |-> M2] :
                     M2 \in { [M EXCEPT !.T[pi].page_table =
                                 [g \in DOMAIN @ \cup {page_num} |->
                                    IF g \in DOMAIN @ THEN @[g] ELSE NewPTE]] } } })

\* Mutant of access: the entry is created and stamped before the bounds check.
access_stampsFirst(M, pid, virtual_addr, write, value) ==
    LET page_num == virtual_addr \div frame_size
        offset == virtual_addr % frame_size
        pi == FindPid(M.T, pid)
        M2 == [M EXCEPT !.T[pi].page_table =
                  [g \in DOMAIN @ \cup {page_num} |->
                     IF g = page_num
                     THEN [(IF g \in DOMAIN @ THEN @[g] ELSE NewPTE)
                             EXCEPT !.last_accessed = M.tick]
                     ELSE @[g]]]
    IN IF pi = 0 THEN [ok |-> FALSE, value |-> value, M |-> M, err |-> "nopid"]
       ELSE IF virtual_addr >= M.T[pi].memory_required
       THEN [ok |-> FALSE, value |-> value, M |-> M2, err |-> "segv"]
       ELSE Only({ accessFrame(pf, pi, page_num, offset, write, value) :
                   pf \in { IF ~M3.T[pi].page_table[page_num].valid
                            THEN handlePageFault(M3, pid, page_num)
                            ELSE [ok |-> TRUE, M |-> M3] :
                     M3 \in { M2 } } })

\* bool MemoryManager::access(int pid, int virtual_addr, bool write, int& value)
\* [ok, value, M, err]: value is the int& after the call; err names the
\* reason of a false return ("nopid", "segv" for the bounds check, "fault").
access(M, pid, virtual_addr, write, value) ==
    LET page_num == virtual_addr \div frame_size
        offset == virtual_addr % frame_size
        pi == FindPid(M.T, pid)
    IN IF pi = 0 THEN [ok |-> FALSE, value |-> value, M |-> M, err |-> "nopid"]
       ELSE IF virtual_addr >= M.T[pi].memory_required
       THEN [ok |-> FALSE, value |-> value, M |-> M, err |-> "segv"]
       ELSE Only({ accessFrame(pf, pi, page_num, offset, write, value) :
                   pf \in { IF ~M2.T[pi].page_table[page_num].valid
                            THEN handlePageFault(M2, pid, page_num)
                            ELSE [ok |-> TRUE, M |-> M2] :
                     M2 \in { [M EXCEPT !.T[pi].page_table =
                                 [g \in DOMAIN @ \cup {page_num} |->
                                    IF g = page_num
                                    THEN [(IF g \in DOMAIN @ THEN @[g] ELSE NewPTE)
                                            EXCEPT !.last_accessed = M.tick]
                                    ELSE @[g]]] } } })

----------------------------------------------------------------------------
(* Processes *)

\* Process() : pid(-1), state(READY), and the members' default values.
NewProcess(name, pid, memory, instructions) ==
    initializePageTable(
        [name |-> name, pid |-> pid, state |-> "READY",
         instructions |-> instructions, pc |-> 0, logs |-> <<>>,
         sleep_counter |-> 0, memory_required |-> memory,
         symbol_table |-> <<>>, symbol_cursor |-> 0,
         page_table |-> <<>>],
        (memory + frame_size - 1) \div frame_size)

----------------------------------------------------------------------------
(* Instruction interpreter: Instruction.cpp *)

\* An operand as the parser keeps it, a string: std::stoi succeeds on a
\* literal (Lit) and throws on a variable name (Var).
Lit(n) == [k |-> "lit", v |-> n]

Var(s) == [k |-> "var", v |-> s]

\* A quoted part of a PRINT expression.
Quoted(s) == [k |-> "str", v |-> s]

\* memoryManager->access(...) called by the interpreter.  held: the calling
\* thread already owns processTableMutex (the step command); access then
\* locks mem_mutex and requests processTableMutex a second time on a
\* non-recursive std::mutex, and the call does not return (blocked).
callAccess(M, held, pid, addr, write, value) ==
    IF held
    THEN [ok |-> FALSE, value |-> value, M |-> M, err |-> "none", blocked |-> TRUE]
    ELSE Only({ [ok |-> r.ok, value |-> r.value, M |-> r.M, err |-> r.err,
                 blocked |-> FALSE] :
                r \in {access(M, pid, addr, write, value)} })

\* The values of int.
INT_MAX == 2147483647

INT_MIN == -INT_MAX - 1

\* int v1 + v2 and int v1 - v2 (sign -1).  A result beyond the range of int
\* is a signed overflow, which the language leaves undefined; the builds of
\* this project (two's complement, no trapping) yield it modulo 2^32.
intSum(v1, sign, v2) ==
    IF sign = 1
    THEN IF v2 > 0 /\ v1 > INT_MAX - v2 THEN (v1 - INT_MAX - 1) + (v2 - INT_MAX - 1)
         ELSE IF v2 < 0 /\ v1 < INT_MIN - v2 THEN (v1 + INT_MAX + 1) + (v2 + INT_MAX + 1)
         ELSE v1 + v2
    ELSE IF v2 < 0 /\ v1 > INT_MAX + v2 THEN (v1 - INT_MAX - 1) - (v2 + INT_MAX + 1)
         ELSE IF v2 > 0 /\ v1 < INT_MIN + v2 THEN (v1 + INT_MAX + 1) - (v2 - INT_MAX - 1)
         ELSE v1 - v2

\* bool getValueFromMemory(Process& p, const std::string& token, int& outVal)
\* A token std::stoi rejects, a name or a number beyond the range of int
\* (std::out_of_range, caught by the same catch (...)), is a Var.
getValueFromMemory(M, held, pi, token) ==
    IF token.k = "lit"
    THEN [ok |-> TRUE, value |-> token.v, M |-> M, err |-> "none", blocked |-> FALSE]
    ELSE IF token.v \notin DOMAIN M.T[pi].symbol_table
    THEN [ok |-> TRUE, value |-> 0, M |-> M, err |-> "none", blocked |-> FALSE]
    ELSE callAccess(M, held, M.T[pi].pid, M.T[pi].symbol_table[token.v], FALSE, 0)

\* The symbol table after setValueToMemory's lookup: a new variable takes the
\* address symbol_cursor, and symbol_cursor advances by 2, before the access.
allocateSymbol(M, pi, varName) ==
    LET st == M.T[pi].symbol_table
    IN IF varName \in DOMAIN st THEN M
       ELSE [M EXCEPT !.T[pi].symbol_table =
                         [n \in (DOMAIN st) \cup {varName} |->
                             IF n = varName THEN M.T[pi].symbol_cursor ELSE st[n]],
                      !.T[pi].symbol_cursor = @ + 2]

\* bool setValueToMemory(Process& p, const std::string& varName, int value)
setValueToMemory(M, held, pi, varName, value) ==
    Only({ callAccess(M1, held, M1.T[pi].pid, M1.T[pi].symbol_table[varName], TRUE, value) :
           M1 \in {allocateSymbol(M, pi, varName)} })

\* int clampUint16(int val)
clampUint16(val) == IF val < 0 THEN 0 ELSE IF val > 65535 THEN 65535 ELSE val

\* An instruction that returns without advancing: r is the failed call.
Stall(r) == [M |-> r.M, err |-> r.err, blocked |-> r.blocked]

\* Mutant of storeAndAdvance: pc advances whether the store succeeded or not.
storeAndAdvance_always(M, held, pi, varName, value) ==
    Only({ [M |-> [r.M EXCEPT !.T[pi].pc = @ + 1],
            err |-> r.err, blocked |-> r.blocked] :
           r \in {setValueToMemory(M, held, pi, varName, value)} })

\* if (setValueToMemory(p, var, value)) p.pc++;
storeAndAdvance(M, held, pi, varName, value) ==
    Only({ [M |-> IF r.ok THEN [r.M EXCEPT !.T[pi].pc = @ + 1] ELSE r.M,
            err |-> r.err, blocked |-> r.blocked] :
           r \in {setValueToMemory(M, held, pi, varName, value)} })

\* void DeclareInstruction::execute(Process& p)
DeclareInstruction(M, held, pi, ins) ==
    storeAndAdvance(M, held, pi, ins.var, clampUint16(ins.val))

\* void AddInstruction::execute, void SubtractInstruction::execute (sign -1)
ArithInstruction(M, held, pi, ins, sign) ==
    Only({ IF ~r1.ok THEN Stall(r1)
           ELSE Only({ IF ~r2.ok THEN Stall(r2)
                       ELSE storeAndAdvance(r2.M, held, pi, ins.target,
                                            clampUint16(intSum(r1.value, sign, r2.value))) :
                       r2 \in {getValueFromMemory(r1.M, held, pi, ins.op2)} }) :
           r1 \in {getValueFromMemory(M, held, pi, ins.op1)} })

\* The loop of PrintInstruction::execute over the parts from part i on; out
\* is the ostringstream so far.
RECURSIVE printParts(_, _, _, _, _, _)
printParts(M, held, pi, parts, i, out) ==
    IF i > Len(parts)
    THEN [ok |-> TRUE, value |-> out, M |-> M, err |-> "none", blocked |-> FALSE]
    ELSE IF parts[i].k = "str"
    THEN printParts(M, held, pi, parts, i + 1, out \o parts[i].v)
    ELSE Only({ IF ~r.ok THEN r
                ELSE printParts(r.M, held, pi, parts, i + 1, out \o ToString(r.value)) :
                r \in {getValueFromMemory(M, held, pi, parts[i])} })

\* void PrintInstruction::execute(Process& p)
PrintInstruction(M, held, pi, ins) ==
    Only({ IF ~r.ok THEN Stall(r)
           ELSE [M |-> [r.M EXCEPT !.T[pi].logs = Append(@, r.value),
                                   !.T[pi].pc = @ + 1],
                 err |-> "none", blocked |-> FALSE] :
           r \in {printParts(M, held, pi, ins.parts, 1, "")} })

\* Mutant of SleepInstruction: one tick more than the duration.
SleepInstruction_plusOne(M, held, pi, ins) ==
    [M |-> [M EXCEPT !.T[pi].sleep_counter = ins.duration + 1,
                     !.T[pi].state = "SLEEPING",
                     !.T[pi].pc = @ + 1],
     err |-> "none", blocked |-> FALSE]

\* void SleepInstruction::execute(Process& p)
SleepInstruction(M, held, pi, ins) ==
    [M |-> [M EXCEPT !.T[pi].sleep_counter = ins.duration,
                     !.T[pi].state = "SLEEPING",
                     !.T[pi].pc = @ + 1],
     err |-> "none", blocked |-> FALSE]

\* Mutant of fullExpansion: one copy of the body fewer.
RECURSIVE fullExpansion_oneLess(_, _)
fullExpansion_oneLess(body, repeats) ==
    IF repeats <= 1 THEN <<>> ELSE body \o fullExpansion_oneLess(body, repeats - 1)

\* fullExpansion of ForInstruction::execute: the body, repeats times.
RECURSIVE fullExpansion(_, _)
fullExpansion(body, repeats) ==
    IF repeats <= 0 THEN <<>> ELSE body \o fullExpansion(body, repeats - 1)

\* Mutant of ForInstruction: the instructions after the FOR are dropped.
ForInstruction_dropsTail(M, held, pi, ins) ==
    LET p == M.T[pi]
    IN [M |-> IF p.pc < Len(p.instructions)
              THEN [M EXCEPT !.T[pi].instructions =
                        SubSeq(p.instructions, 1, p.pc)
                          \o fullExpansion(ins.body, ins.repeats)]
              ELSE M,
        err |-> "none", blocked |-> FALSE]

\* void ForInstruction::execute(Process& p): the instruction at pc is erased
\* and the expansion inserted in its place; pc stays.
ForInstruction(M, held, pi, ins) ==
    LET p == M.T[pi]
        n == Len(p.instructions)
    IN [M |-> IF p.pc < n
              THEN [M EXCEPT !.T[pi].instructions =
                        SubSeq(p.instructions, 1, p.pc)
                          \o fullExpansion(ins.body, ins.repeats)
                          \o SubSeq(p.instructions, p.pc + 2, n)]
              ELSE M,
        err |-> "none", blocked |-> FALSE]

\* p.state = ProcessState::MEMORY_VIOLATED; return;
Violation(M, pi) ==
    [M |-> [M EXCEPT !.T[pi].state = "MEMORY_VIOLATED"], err |-> "none", blocked |-> FALSE]

\* void WriteInstruction::execute(Process& p): the value operand is resolved
\* first, then the address is checked.
WriteInstruction(M, held, pi, ins) ==
    Only({ IF ~rv.ok THEN Stall(rv)
           ELSE IF ins.addr < 0 \/ ins.addr >= rv.M.T[pi].memory_required
           THEN Violation(rv.M, pi)
           ELSE Only({ [M |-> IF r.ok THEN [r.M EXCEPT !.T[pi].pc = @ + 1] ELSE r.M,
                        err |-> r.err, blocked |-> r.blocked] :
                       r \in {callAccess(rv.M, held, rv.M.T[pi].pid, ins.addr, TRUE,
                                         clampUint16(rv.value))} }) :
           rv \in {getValueFromMemory(M, held, pi, ins.val)} })

\* void ReadInstruction::execute(Process& p)
ReadInstruction(M, held, pi, ins) ==
    IF ins.addr < 0 \/ ins.addr >= M.T[pi].memory_required
    THEN Violation(M, pi)
    ELSE Only({ IF ~r.ok THEN Stall(r)
                ELSE storeAndAdvance(r.M, held, pi, ins.var, clampUint16(r.value)) :
                r \in {callAccess(M, held, M.T[pi].pid, ins.addr, FALSE, 0)} })

\* ins->execute(p) on the process at index pi of the table: [M, err, blocked].
\* err is the reason of the failed access that made the instruction return
\* early ("none" if there was none); blocked says the call never returns.
execute(M, held, pi, ins) ==
    CASE ins.op = "DECLARE"  -> DeclareInstruction(M, held, pi, ins)
      [] ins.op = "ADD"      -> ArithInstruction(M, held, pi, ins, 1)
      [] ins.op = "SUBTRACT" -> ArithInstruction(M, held, pi, ins, -1)
      [] ins.op = "PRINT"    -> PrintInstruction(M, held, pi, ins)
      [] ins.op = "SLEEP"    -> SleepInstruction(M, held, pi, ins)
      [] ins.op = "FOR"      -> ForInstruction(M, held, pi, ins)
      [] ins.op = "WRITE"    -> WriteInstruction(M, held, pi, ins)
      [] ins.op = "READ"     -> ReadInstruction(M, held, pi, ins)

\* The parsed instructions.
DECLARE(var, val) == [op |-> "DECLARE", var |-> var, val |-> val]

ADD(target, op1, op2) == [op |-> "ADD", target |-> target, op1 |-> op1, op2 |-> op2]

SUBTRACT(target, op1, op2) == [op |-> "SUBTRACT", target |-> target, op1 |-> op1, op2 |-> op2]

PRINT(parts) == [op |-> "PRINT", parts |-> parts]

SLEEP(duration) == [op |-> "SLEEP", duration |-> duration]

FOR(body, repeats) == [op |-> "FOR", body |-> body, repeats |-> repeats]

WRITE(addr, val) == [op |-> "WRITE", addr |-> addr, val |-> val]

READ(var, addr) == [op |-> "READ", var |-> var, addr |-> addr]

----------------------------------------------------------------------------
(* Scheduler: scheduler_loop_tick of emulator.cpp *)

\* A core's running pointer is the index of the process in processTable;
\* 0 stands for nullptr.
Cores == 0 .. (systemConfig.num_cpu - 1)

\* Mutant of isRR: every scheduler is treated as round robin.
isRR_always == TRUE

\* systemConfig.scheduler == "rr"
isRR == systemConfig.scheduler = "rr"

\* The scheduler's working state during a tick: W.M is the memory manager's
\* view (W.M.T the process table), W.cores is cpuCores, W.rr is rrCursor and
\* W.resched is rescheduleNeeded.
SchedState(resched) ==
    [M |-> MemState, cores |-> cpuCores, rr |-> rrCursor, resched |-> resched]

\* Step 1 of the tick: a SLEEPING process with a positive sleep_counter is
\* decremented and becomes READY at zero.
RECURSIVE wakeFrom(_, _)
wakeFrom(T, i) ==
    IF i > Len(T) THEN T
    ELSE wakeFrom(IF T[i].state = "SLEEPING" /\ T[i].sleep_counter > 0
                  THEN [T EXCEPT ![i].sleep_counter = @ - 1,
                                 ![i].state = IF T[i].sleep_counter = 1
                                              THEN "READY" ELSE @]
                  ELSE T, i + 1)

\* for (auto& p : processTable) of step 1, from the first process on.
wake(T) == wakeFrom(T, 1)

\* Step 2 of the tick: if (!core.running || core.running->state == FINISHED)
\* core.running = nullptr;
reap(T, cores) ==
    [c \in DOMAIN cores |->
        IF cores[c].running = 0 \/ T[cores[c].running].state = "FINISHED"
        THEN [cores[c] EXCEPT !.running = 0] ELSE cores[c]]

\* Mutant of firstReady: the last READY process of the scan is chosen.
firstReady_last(T, start) ==
    LET N == Len(T)
        offs == {o \in 0..(N - 1) : T[((start + o) % N) + 1].state = "READY"}
    IN IF offs = {} THEN 0
       ELSE ((start + (CHOOSE o \in offs : \A q \in offs : o >= q)) % N) + 1

\* The scan for a READY process from table offset start (0-based), wrapping
\* round: the index of the first one found, 0 if there is none.
firstReady(T, start) ==
    LET N == Len(T)
        offs == {o \in 0..(N - 1) : T[((start + o) % N) + 1].state = "READY"}
    IN IF offs = {} THEN 0
       ELSE ((start + (CHOOSE o \in offs : \A q \in offs : o <= q)) % N) + 1

\* Mutant of assignCore: the round-robin scan starts at the head of the table.
assignCore_fromStart(W, c) ==
    LET T == W.M.T
        N == Len(T)
        cur == IF isRR /\ W.rr >= N THEN W.rr % N ELSE W.rr
        chosen == firstReady(T, 0)
    IN IF W.cores[c].running # 0 THEN W
       ELSE IF N = 0 THEN [W EXCEPT !.rr = 0]
       ELSE IF chosen = 0 THEN [W EXCEPT !.rr = cur]
       ELSE [W EXCEPT !.M.T[chosen].state = "RUNNING",
                      !.cores[c] = [running |-> chosen,
                                    quantum_left |-> IF isRR THEN systemConfig.quantum_cycles
                                                     ELSE 0],
                      !.rr = IF isRR THEN chosen % N ELSE cur]

\* Mutant of assignCore: a dispatched process gets twice the quantum.
assignCore_doubleQuantum(W, c) ==
    LET T == W.M.T
        N == Len(T)
        cur == IF isRR /\ W.rr >= N THEN W.rr % N ELSE W.rr
        chosen == firstReady(T, IF isRR THEN cur ELSE 0)
    IN IF W.cores[c].running # 0 THEN W
       ELSE IF N = 0 THEN [W EXCEPT !.rr = 0]
       ELSE IF chosen = 0 THEN [W EXCEPT !.rr = cur]
       ELSE [W EXCEPT !.M.T[chosen].state = "RUNNING",
                      !.cores[c] = [running |-> chosen,
                                    quantum_left |-> IF isRR
                                                     THEN 2 * systemConfig.quantum_cycles
                                                     ELSE 0],
                      !.rr = IF isRR THEN chosen % N ELSE cur]

\* The body of assignReadyToIdleCores' loop for core c.
assignCore(W, c) ==
    LET T == W.M.T
        N == Len(T)
        cur == IF isRR /\ W.rr >= N THEN W.rr % N ELSE W.rr
        chosen == firstReady(T, IF isRR THEN cur ELSE 0)
    IN IF W.cores[c].running # 0 THEN W
       ELSE IF N = 0 THEN [W EXCEPT !.rr = 0]
       ELSE IF chosen = 0 THEN [W EXCEPT !.rr = cur]
       ELSE [W EXCEPT !.M.T[chosen].state = "RUNNING",
                      !.cores[c] = [running |-> chosen,
                                    quantum_left |-> IF isRR THEN systemConfig.quantum_cycles
                                                     ELSE 0],
                      !.rr = IF isRR THEN chosen % N ELSE cur]

RECURSIVE assignLoop(_, _)
assignLoop(W, c) ==
    IF c >= systemConfig.num_cpu THEN W
    ELSE Only({ assignLoop(W1, c + 1) : W1 \in {assignCore(W, c)} })

\* The lambda assignReadyToIdleCores.
assignReadyToIdleCores(W) ==
    assignLoop(IF Len(W.M.T) = 0 THEN [W EXCEPT !.rr = 0] ELSE W, 0)

\* Mutant of preempt: the cursor is left where it was.
preempt_cursorKept(W, c, pi) ==
    [W EXCEPT !.M.T[pi].state = "READY",
              !.cores[c] = [running |-> 0, quantum_left |-> systemConfig.quantum_cycles],
              !.resched = TRUE]

\* The preemption of the quantum-expiry branch: p becomes READY, the core is
\* released with a fresh quantum and rrCursor moves just past p.
preempt(W, c, pi) ==
    [W EXCEPT !.M.T[pi].state = "READY",
              !.cores[c] = [running |-> 0, quantum_left |-> systemConfig.quantum_cycles],
              !.resched = TRUE,
              !.rr = pi % Len(W.M.T)]

\* Mutant of release: the core is released without rescheduleNeeded.
release_noResched(W, c) == [W EXCEPT !.cores[c].running = 0]

\* core.running = nullptr; rescheduleNeeded = true;
release(W, c) == [W EXCEPT !.cores[c].running = 0, !.resched = TRUE]

\* Mutant of postExecute: a MEMORY_VIOLATED process keeps its core.
postExecute_keepsViolated(W, c, pi) ==
    LET p == W.M.T[pi]
    IN IF p.state = "FINISHED" THEN release(W, c)
       ELSE IF p.state = "MEMORY_VIOLATED" THEN W
       ELSE IF p.pc >= Len(p.instructions)
       THEN [release(W, c) EXCEPT !.M.T[pi].state = "FINISHED"]
       ELSE IF p.state = "SLEEPING" THEN release(W, c)
       ELSE IF isRR /\ W.cores[c].quantum_left <= 0
       THEN IF \E j \in 1..Len(W.M.T) : j # pi /\ W.M.T[j].state = "READY"
            THEN preempt(W, c, pi)
            ELSE [W EXCEPT !.cores[c].quantum_left = systemConfig.quantum_cycles]
       ELSE W

\* "Handle post-execution logic" for core c, which has just executed an
\* instruction of the process at index pi.
postExecute(W, c, pi) ==
    LET p == W.M.T[pi]
    IN IF p.state = "FINISHED" THEN release(W, c)
       ELSE IF p.state = "MEMORY_VIOLATED" THEN release(W, c)
       ELSE IF p.pc >= Len(p.instructions)
       THEN [release(W, c) EXCEPT !.M.T[pi].state = "FINISHED"]
       ELSE IF p.state = "SLEEPING" THEN release(W, c)
       ELSE IF isRR /\ W.cores[c].quantum_left <= 0
       THEN IF \E j \in 1..Len(W.M.T) : j # pi /\ W.M.T[j].state = "READY"
            THEN preempt(W, c, pi)
            ELSE [W EXCEPT !.cores[c].quantum_left = systemConfig.quantum_cycles]
       ELSE W

\* Mutant of execCore: a RUNNING process with pc out of bounds is left as it is.
execCore_noFinish(W, c) ==
    LET pi == W.cores[c].running
    IN IF pi # 0 /\ W.M.T[pi].state = "RUNNING"
       THEN IF W.M.T[pi].pc < Len(W.M.T[pi].instructions)
            THEN Only({ postExecute([W EXCEPT !.M = x.M,
                                              !.cores[c].quantum_left =
                                                  IF isRR THEN @ - 1 ELSE @], c, pi) :
                        x \in {execute(W.M, FALSE, pi,
                                       W.M.T[pi].instructions[W.M.T[pi].pc + 1])} })
            ELSE W
       ELSE IF pi = 0 THEN [W EXCEPT !.resched = TRUE]
       ELSE W

\* Step 3 of the tick for core c: execute one instruction of its RUNNING
\* process, count the quantum down, then the post-execute transitions.
execCore(W, c) ==
    LET pi == W.cores[c].running
    IN IF pi # 0 /\ W.M.T[pi].state = "RUNNING"
       THEN IF W.M.T[pi].pc < Len(W.M.T[pi].instructions)
            THEN Only({ postExecute([W EXCEPT !.M = x.M,
                                              !.cores[c].quantum_left =
                                                  IF isRR THEN @ - 1 ELSE @], c, pi) :
                        x \in {execute(W.M, FALSE, pi,
                                       W.M.T[pi].instructions[W.M.T[pi].pc + 1])} })
            ELSE [release(W, c) EXCEPT !.M.T[pi].state = "FINISHED"]
       ELSE IF pi = 0 THEN [W EXCEPT !.resched = TRUE]
       ELSE W

\* The instruction core c is about to execute calls MemoryManager::access,
\* which locks processTableMutex.
execNeedsTable(W, c) ==
    LET pi == W.cores[c].running
    IN /\ pi # 0
       /\ W.M.T[pi].state = "RUNNING"
       /\ W.M.T[pi].pc < Len(W.M.T[pi].instructions)
       /\ execute(W.M, TRUE, pi, W.M.T[pi].instructions[W.M.T[pi].pc + 1]).blocked

----------------------------------------------------------------------------
(* The emulator: the scheduler thread and the command thread *)

\* The scenarios: a config.txt and the screen -c commands the user types,
\* in order.
Program(name, memory, instructions) ==
    [cmd |-> "screen -c", name |-> name, memory |-> memory,
     instructions |-> instructions]

\* screen -s <name> <memory>
Random(name, memory) ==
    [cmd |-> "screen -s", name |-> name, memory |-> memory, instructions |-> <<>>]

\* scheduler start, scheduler stop
Scheduler(subcmd) == [cmd |-> "scheduler", subcmd |-> subcmd]

\* One core, round robin with a quantum of 2, two processes.
ScRoundRobin ==
    [config |-> [num_cpu |-> 1, scheduler |-> "rr", quantum_cycles |-> 2,
                 batch_process_freq |-> 1, min_ins |-> 1, max_ins |-> 1,
                 max_overall_mem |-> 8, mem_per_frame |-> 4,
                 min_mem_per_proc |-> 4, max_mem_per_proc |-> 4],
     programs |-> << Program("P1", 4, << DECLARE("x", 1), ADD("x", Var("x"), Lit(1)),
                                         ADD("x", Var("x"), Lit(1)),
                                         ADD("x", Var("x"), Lit(1)) >>),
                     Program("P2", 4, << DECLARE("y", 5) >>) >>]

\* Two cores, one process that prints and sleeps and ends on a SLEEP.
ScSleep ==
    [config |-> [num_cpu |-> 2, scheduler |-> "rr", quantum_cycles |-> 2,
                 batch_process_freq |-> 1, min_ins |-> 1, max_ins |-> 1,
                 max_overall_mem |-> 4, mem_per_frame |-> 4,
                 min_mem_per_proc |-> 4, max_mem_per_proc |-> 4],
     programs |-> << Program("S1", 4, << PRINT(<<Quoted("a")>>), SLEEP(1),
                                         PRINT(<<Quoted("b")>>), PRINT(<<Quoted("c")>>),
                                         SLEEP(1) >>) >>]

\* Four bytes per process: the third variable of V1 lies at address 4, and
\* V2 reads address 8.
ScSegv ==
    [config |-> [num_cpu |-> 1, scheduler |-> "rr", quantum_cycles |-> 2,
                 batch_process_freq |-> 1, min_ins |-> 1, max_ins |-> 1,
                 max_overall_mem |-> 4, mem_per_frame |-> 4,
                 min_mem_per_proc |-> 4, max_mem_per_proc |-> 4],
     programs |-> << Program("V1", 4, << DECLARE("a", 1), DECLARE("b", 2),
                                         DECLARE("c", 3) >>),
                     Program("V2", 4, << READ("r", 8), PRINT(<<Var("r")>>) >>) >>]

\* memory_required = 32 and a WRITE to address 64.
ScWrite ==
    [config |-> [num_cpu |-> 1, scheduler |-> "rr", quantum_cycles |-> 2,
                 batch_process_freq |-> 1, min_ins |-> 1, max_ins |-> 1,
                 max_overall_mem |-> 16, mem_per_frame |-> 16,
                 min_mem_per_proc |-> 32, max_mem_per_proc |-> 32],
     programs |-> << Program("W1", 32, << WRITE(0, Lit(7)), WRITE(64, Lit(1)),
                                          PRINT(<<Quoted("x")>>) >>) >>]

\* One core, first come first served: F1 computes, sleeps and prints, F2
\* prints.
ScFcfs ==
    [config |-> [num_cpu |-> 1, scheduler |-> "fcfs", quantum_cycles |-> 1,
                 batch_process_freq |-> 1, min_ins |-> 1, max_ins |-> 1,
                 max_overall_mem |-> 8, mem_per_frame |-> 4,
                 min_mem_per_proc |-> 4, max_mem_per_proc |-> 4],
     programs |-> << Program("F1", 4, << DECLARE("x", 1), ADD("x", Var("x"), Lit(1)),
                                         SLEEP(1), PRINT(<<Var("x")>>) >>),
                     Program("F2", 4, << PRINT(<<Quoted("b")>>) >>) >>]

\* One core, P1 sleeps three ticks and prints, P2 prints.
ScSleepOrder ==
    [config |-> [num_cpu |-> 1, scheduler |-> "rr", quantum_cycles |-> 2,
                 batch_process_freq |-> 1, min_ins |-> 1, max_ins |-> 1,
                 max_overall_mem |-> 8, mem_per_frame |-> 4,
                 min_mem_per_proc |-> 4, max_mem_per_proc |-> 4],
     programs |-> << Program("P1", 4, << SLEEP(3), PRINT(<<Quoted("a")>>) >>),
                     Program("P2", 4, << PRINT(<<Quoted("b")>>) >>) >>]

\* One process whose only instruction is FOR([ADD(x,x,1)], 3).
ScFor ==
    [config |-> [num_cpu |-> 1, scheduler |-> "rr", quantum_cycles |-> 2,
                 batch_process_freq |-> 1, min_ins |-> 1, max_ins |-> 1,
                 max_overall_mem |-> 4, mem_per_frame |-> 4,
                 min_mem_per_proc |-> 4, max_mem_per_proc |-> 4],
     programs |-> << Program("L1", 4, << FOR(<<ADD("x", Var("x"), Lit(1))>>, 3) >>) >>]

\* One frame of 16 bytes and one process of 64 bytes that writes pages 0 and
\* 1 and reads page 0 again.
ScLru ==
    [config |-> [num_cpu |-> 1, scheduler |-> "rr", quantum_cycles |-> 2,
                 batch_process_freq |-> 1, min_ins |-> 1, max_ins |-> 1,
                 max_overall_mem |-> 16, mem_per_frame |-> 16,
                 min_mem_per_proc |-> 64, max_mem_per_proc |-> 64],
     programs |-> << Program("U1", 64, << WRITE(0, Lit(7)), WRITE(16, Lit(9)),
                                          READ("z", 0), PRINT(<<Var("z")>>) >>) >>]

\* A SLEEP of duration 0, which the parser's \d+ accepts, before a PRINT.
ScSleepZero ==
    [config |-> [num_cpu |-> 1, scheduler |-> "fcfs", quantum_cycles |-> 2,
                 batch_process_freq |-> 1, min_ins |-> 1, max_ins |-> 1,
                 max_overall_mem |-> 4, mem_per_frame |-> 4,
                 min_mem_per_proc |-> 4, max_mem_per_proc |-> 4],
     programs |-> << Program("Z1", 4, << SLEEP(0), PRINT(<<Quoted("a")>>) >>) >>]

\* Auto-creation every second tick of processes with no or one instruction,
\* between creations by the user, one of them under a name of the form
\* auto_p<n> and one under a name that exists.
ScBatch ==
    [config |-> [num_cpu |-> 1, scheduler |-> "rr", quantum_cycles |-> 2,
                 batch_process_freq |-> 2, min_ins |-> 0, max_ins |-> 1,
                 max_overall_mem |-> 4, mem_per_frame |-> 4,
                 min_mem_per_proc |-> 4, max_mem_per_proc |-> 4],
     programs |-> << Program("auto_p2", 4, << PRINT(<<Quoted("u")>>) >>),
                     Scheduler("start"),
                     Random("auto_p2", 4),
                     Random("t1", 4),
                     Scheduler("stop") >>]

\* The operands of the arithmetic scenarios: a negative literal, a small
\* one, the largest stored value, the largest int, and 2^32, which
\* std::stoi rejects.
ArithOperands ==
    {Lit(-5), Lit(2), Lit(65535), Lit(INT_MAX), Var("4294967296")}

\* One process of one page that adds and subtracts two operands, declares a
\* negative value and one above 65535, writes a literal above 65535 to an
\* address and reads it back.
ScArith(a, b) ==
    [config |-> [num_cpu |-> 1, scheduler |-> "fcfs", quantum_cycles |-> 1,
                 batch_process_freq |-> 1, min_ins |-> 1, max_ins |-> 1,
                 max_overall_mem |-> 16, mem_per_frame |-> 16,
                 min_mem_per_proc |-> 16, max_mem_per_proc |-> 16],
     programs |-> << Program("A1", 16, << ADD("s", a, b),
                                          SUBTRACT("d", a, b),
                                          DECLARE("m", -1),
                                          DECLARE("n", 65536),
                                          WRITE(9, Lit(70000)),
                                          READ("r", 9) >>) >>]

\* One frame of two bytes for two processes of four pages: K1 declares x,
\* writes to the literal address 0 and prints x; K2 declares y and z in
\* between.
ScAlias ==
    [config |-> [num_cpu |-> 1, scheduler |-> "rr", quantum_cycles |-> 1,
                 batch_process_freq |-> 1, min_ins |-> 1, max_ins |-> 1,
                 max_overall_mem |-> 2, mem_per_frame |-> 2,
                 min_mem_per_proc |-> 8, max_mem_per_proc |-> 8],
     programs |-> << Program("K1", 8, << DECLARE("x", 5), WRITE(0, Lit(42)),
                                         PRINT(<<Var("x")>>) >>),
                     Program("K2", 8, << DECLARE("y", 9), DECLARE("z", 7) >>) >>]

\* One process with a FOR between two PRINTs and a FOR of zero repeats as its
\* last instruction.
ScForMid ==
    [config |-> [num_cpu |-> 1, scheduler |-> "fcfs", quantum_cycles |-> 2,
                 batch_process_freq |-> 1, min_ins |-> 1, max_ins |-> 1,
                 max_overall_mem |-> 4, mem_per_frame |-> 4,
                 min_mem_per_proc |-> 4, max_mem_per_proc |-> 4],
     programs |-> << Program("M1", 4, << PRINT(<<Quoted("a")>>),
                                         FOR(<<PRINT(<<Quoted("b")>>)>>, 2),
                                         PRINT(<<Quoted("c")>>),
                                         FOR(<<PRINT(<<Quoted("d")>>)>>, 0) >>) >>]

\* One core, round robin with a quantum of 1, three processes of three
\* instructions each.
ScRR3 ==
    [config |-> [num_cpu |-> 1, scheduler |-> "rr", quantum_cycles |-> 1,
                 batch_process_freq |-> 1, min_ins |-> 1, max_ins |-> 1,
                 max_overall_mem |-> 12, mem_per_frame |-> 4,
                 min_mem_per_proc |-> 4, max_mem_per_proc |-> 4],
     programs |-> << Program("R1", 4, << PRINT(<<Quoted("a")>>), PRINT(<<Quoted("b")>>),
                                         PRINT(<<Quoted("c")>>) >>),
                     Program("R2", 4, << PRINT(<<Quoted("d")>>), PRINT(<<Quoted("e")>>),
                                         PRINT(<<Quoted("f")>>) >>),
                     Program("R3", 4, << PRINT(<<Quoted("g")>>), PRINT(<<Quoted("h")>>),
                                         PRINT(<<Quoted("i")>>) >>) >>]

\* One process of one instruction, and scheduler start as the last command.
ScStart ==
    [config |-> [num_cpu |-> 1, scheduler |-> "fcfs", quantum_cycles |-> 2,
                 batch_process_freq |-> 2, min_ins |-> 1, max_ins |-> 1,
                 max_overall_mem |-> 4, mem_per_frame |-> 4,
                 min_mem_per_proc |-> 4, max_mem_per_proc |-> 4],
     programs |-> << Program("H1", 4, << PRINT(<<Quoted("h")>>) >>),
                     Scheduler("start") >>]

Scenarios ==
    {ScRoundRobin, ScSleep, ScSegv, ScWrite, ScFcfs, ScSleepOrder, ScFor, ScLru,
     ScSleepZero, ScBatch, ScAlias, ScForMid, ScStart, ScRR3}
      \cup { ScArith(a, b) : a, b \in ArithOperands }

\* The state after initialize: loadConfigFile has built the cores and
\* initializeCommand the memory manager; no process exists.
Init ==
    \E sc \in Scenarios :
      /\ systemConfig = sc.config
      /\ pending = sc.programs
      /\ processTable = <<>>
      /\ frame_table = [i \in Frames |-> NewFTE]
      /\ ram = [x \in 0..(total_frames * frame_size - 1) |-> 0]
      /\ backing_store = <<>>
      /\ stats = [pages_paged_in |-> 0, pages_paged_out |-> 0]
      /\ global_tick = 0
      /\ cpuCores = [c \in Cores |-> [running |-> 0, quantum_left |-> 0]]
      /\ rrCursor = 0
      /\ nextPID = 1
      /\ schedulerRunning = FALSE
      /\ autoCreateRunning = FALSE
      /\ schedulerThread = [pc |-> "off", core |-> 0, rescheduleNeeded |-> FALSE, name |-> ""]
      /\ processTableMutex = "free"
      /\ mem_mutex = "free"
      /\ current_process = ""
      /\ commandThread = [pc |-> "prompt", target |-> 0, fetched |-> <<>>]
      /\ hist = [created |-> <<>>, steps |-> 0, preempted |-> <<>>]
      /\ shadow = <<>>

\* The memory manager's members and the page tables after a call of access.
SetMemState(M) ==
    /\ processTable' = M.T
    /\ frame_table' = M.ft
    /\ ram' = M.ram
    /\ backing_store' = M.bs
    /\ stats' = M.stats

\* The scheduler's working state written back.
SetSchedState(W) ==
    /\ SetMemState(W.M)
    /\ cpuCores' = W.cores
    /\ rrCursor' = W.rr

\* Process* findProcess(const std::string& name): 0 stands for nullptr.
findProcess(T, name) ==
    IF \E i \in 1..Len(T) : T[i].name = name
    THEN CHOOSE i \in 1..Len(T) : T[i].name = name /\ \A j \in 1..(i-1) : T[j].name # name
    ELSE 0

\* memory > 0 && (memory & (memory - 1)) == 0
isPowerOfTwo(memory) == \E k \in 0..30 : memory = 2^k

\* The lines of generateDummyInstructions' pool after parseInstruction, in
\* the order of the source, %ADDR% replaced by randomAddr.
pool(randomAddr) ==
    << DECLARE("x", 5),
       DECLARE("y", 10),
       ADD("sum", Var("x"), Var("y")),
       SUBTRACT("diff", Var("y"), Var("x")),
       PRINT(<<Quoted("Hello world!")>>),
       PRINT(<<Quoted("Value of sum: "), Var("sum")>>),
       SLEEP(2),
       FOR(<<PRINT(<<Quoted("Hello world!")>>)>>, 2),
       WRITE(randomAddr, Lit(42)),
       READ("val", randomAddr),
       PRINT(<<Quoted("Loaded value: "), Var("val")>>) >>

\* The instruction lists generateDummyInstructions(count, memSize) can
\* return: each line is pool[rand() % pool.size()] with rand() % memSize as
\* its address.
RECURSIVE generateDummyInstructions(_, _)
generateDummyInstructions(count, memSize) ==
    IF count <= 0 THEN { <<>> }
    ELSE { Append(ins, pool(randomAddr)[line]) :
             ins \in generateDummyInstructions(count - 1, memSize),
             line \in { l \in 1..Len(pool(0)) : l <= MaxPoolLine },
             randomAddr \in 0..(memSize - 1) }

\* rand() % (max_ins - min_ins + 1) + min_ins
insCounts == systemConfig.min_ins .. systemConfig.max_ins

\* void ensureSchedulerActive(): the scheduler thread is started if it is
\* not running.
ensureSchedulerActive ==
    IF ~schedulerRunning
    THEN /\ schedulerRunning' = TRUE
         /\ schedulerThread' = [pc |-> "top", core |-> 0, rescheduleNeeded |-> FALSE,
                                name |-> ""]
    ELSE UNCHANGED <<schedulerRunning, schedulerThread>>

\* screen -s <name> <memory> and screen -c <name> <memory> "<instructions>"
\* in the main console: after the checks of the arguments the process is
\* appended under processTableMutex with the next pid, unless the name
\* exists; the scheduler thread is started if it is not running, and the
\* console attaches to the process.  screen -s draws the instructions.
Create ==
    /\ commandThread.pc = "prompt"
    /\ current_process = ""
    /\ pending # <<>>
    /\ Head(pending).cmd \in {"screen -c", "screen -s"}
    /\ processTableMutex = "free"
    /\ mem_mutex = "free"
    /\ pending' = Tail(pending)
    /\ LET prog == Head(pending)
           valid == /\ isPowerOfTwo(prog.memory)
                    /\ prog.memory >= systemConfig.min_mem_per_proc
                    /\ prog.memory <= systemConfig.max_mem_per_proc
                    /\ prog.cmd = "screen -c" => Len(prog.instructions) \in 1..50
                    /\ findProcess(processTable, prog.name) = 0
       IN IF valid
          THEN /\ \E count \in IF prog.cmd = "screen -s" THEN insCounts ELSE {0} :
                  \E instructions \in
                        IF prog.cmd = "screen -s"
                        THEN generateDummyInstructions(count, prog.memory)
                        ELSE {prog.instructions} :
                    processTable' = Append(processTable,
                        NewProcess(prog.name, nextPID, prog.memory, instructions))
               /\ nextPID' = nextPID + 1
               /\ current_process' = prog.name
               /\ hist' = [hist EXCEPT !.created = Append(@, global_tick)]
               /\ ensureSchedulerActive
          ELSE UNCHANGED <<processTable, nextPID, current_process, hist,
                           schedulerRunning, schedulerThread>>
    /\ UNCHANGED <<systemConfig, frame_table, ram, backing_store, stats, global_tick,
                   cpuCores, rrCursor, autoCreateRunning, processTableMutex, mem_mutex,
                   commandThread, shadow>>

\* scheduler start and scheduler stop in the main console.
SchedulerCommand ==
    /\ commandThread.pc = "prompt"
    /\ current_process = ""
    /\ pending # <<>>
    /\ Head(pending).cmd = "scheduler"
    /\ pending' = Tail(pending)
    /\ IF Head(pending).subcmd = "start"
       THEN /\ autoCreateRunning' = TRUE
            /\ ensureSchedulerActive
       ELSE /\ autoCreateRunning' = FALSE
            /\ UNCHANGED <<schedulerRunning, schedulerThread>>
    /\ UNCHANGED <<systemConfig, processTable, frame_table, ram, backing_store, stats,
                   global_tick, cpuCores, rrCursor, nextPID, processTableMutex, mem_mutex,
                   current_process, commandThread, hist, shadow>>

\* exit in a process screen.
ExitScreen ==
    /\ commandThread.pc = "prompt"
    /\ current_process # ""
    /\ current_process' = ""
    /\ UNCHANGED <<systemConfig, processTable, frame_table, ram, backing_store, stats,
                   global_tick, cpuCores, rrCursor, nextPID, schedulerRunning, autoCreateRunning,
                   schedulerThread, processTableMutex, mem_mutex, commandThread, pending, hist,
                   shadow>>

\* step in a process screen, first half: processTableMutex is taken, the
\* process is found and, if pc < instructions.size(), instructions[pc] is
\* fetched.
StepFetch ==
    /\ commandThread.pc = "prompt"
    /\ current_process # ""
    /\ processTableMutex = "free"
    /\ hist.steps < MaxSteps
    /\ hist' = [hist EXCEPT !.steps = @ + 1]
    /\ LET pi == findProcess(processTable, current_process)
       IN IF pi # 0 /\ processTable[pi].pc < Len(processTable[pi].instructions)
          THEN /\ commandThread' = [pc |-> "step", target |-> pi,
                                    fetched |-> processTable[pi].instructions[
                                                    processTable[pi].pc + 1]]
               /\ processTableMutex' = "cmd"
          ELSE UNCHANGED <<commandThread, processTableMutex>>
    /\ UNCHANGED <<mem_mutex, systemConfig, processTable, frame_table, ram, backing_store, stats,
                   global_tick, cpuCores, rrCursor, nextPID, schedulerRunning, autoCreateRunning,
                   schedulerThread, current_process, pending, shadow>>

\* step, second half: the fetched instruction executes on the process, in
\* whatever state it is, and the mutex is released.  An instruction that
\* calls MemoryManager::access never returns: the thread stays blocked with
\* processTableMutex (and mem_mutex) held.
StepExec ==
    /\ commandThread.pc = "step"
    /\ \E x \in {execute(MemState, TRUE, commandThread.target, commandThread.fetched)} :
         /\ SetMemState(x.M)
         /\ IF x.blocked
            THEN /\ commandThread' = [commandThread EXCEPT !.pc = "blocked"]
                 /\ mem_mutex' = "cmd"
                 /\ UNCHANGED processTableMutex
            ELSE /\ commandThread' = [pc |-> "prompt", target |-> 0, fetched |-> <<>>]
                 /\ processTableMutex' = "free"
                 /\ UNCHANGED mem_mutex
    /\ UNCHANGED <<systemConfig, global_tick, cpuCores, rrCursor, nextPID,
                   schedulerRunning, autoCreateRunning, schedulerThread, current_process, pending, hist,
                   shadow>>

\* The lambda of shouldTick: some process is READY, RUNNING or SLEEPING.
shouldTick ==
    \E i \in 1..Len(processTable) :
        processTable[i].state \in {"READY", "RUNNING", "SLEEPING"}

\* History of the preemptions: T is the table before a step of the tick and
\* T2 the table after it.  A process the step took from RUNNING to READY is
\* entered with the tick, the number K of READY and RUNNING processes and
\* the size n of the table; an entry stays while its process is READY.
preemptedAfter(h, T, T2, tick) ==
    [i \in { j \in 1..Len(T2) :
               /\ T2[j].state = "READY"
               /\ j \in DOMAIN h \/ (j <= Len(T) /\ T[j].state = "RUNNING") } |->
        IF i <= Len(T) /\ T[i].state = "RUNNING"
        THEN [tick |-> tick,
              K |-> Cardinality({ j \in 1..Len(T2) : T2[j].state \in {"READY", "RUNNING"} }),
              n |-> Len(T2)]
        ELSE h[i]]

\* The scheduler thread's loop finds work (tickNow) and starts scheduler_loop_tick:
\* global_tick++, wake, reap, assignReadyToIdleCores.  The tick itself takes
\* no lock; only the shouldTick test before it does.
TickBegin ==
    /\ schedulerThread.pc = "top"
    /\ processTableMutex = "free"
    /\ shouldTick \/ autoCreateRunning
    /\ global_tick < MaxTick
    /\ global_tick' = global_tick + 1
    /\ \E W \in { assignReadyToIdleCores(
                     [M |-> [MemState EXCEPT !.T = wake(processTable),
                                             !.tick = global_tick + 1],
                      cores |-> reap(wake(processTable), cpuCores),
                      rr |-> rrCursor, resched |-> FALSE]) } :
         SetSchedState(W)
    /\ schedulerThread' = [pc |-> "exec", core |-> 0, rescheduleNeeded |-> FALSE, name |-> ""]
    /\ hist' = [hist EXCEPT !.preempted = preemptedAfter(@, processTable, processTable',
                                                         global_tick + 1)]
    /\ UNCHANGED <<systemConfig, nextPID, schedulerRunning, autoCreateRunning, processTableMutex, mem_mutex,
                   current_process, commandThread, pending, shadow>>

\* One iteration of the tick's loop over the cores.  An instruction that
\* accesses memory waits for processTableMutex inside MemoryManager::access.
TickExec ==
    /\ schedulerThread.pc = "exec"
    /\ schedulerThread.core < systemConfig.num_cpu
    /\ (processTableMutex = "free" /\ mem_mutex = "free")
         \/ ~execNeedsTable(SchedState(schedulerThread.rescheduleNeeded),
                            schedulerThread.core)
    /\ \E W \in { execCore(SchedState(schedulerThread.rescheduleNeeded),
                           schedulerThread.core) } :
         /\ SetSchedState(W)
         /\ schedulerThread' = [schedulerThread EXCEPT !.core = @ + 1,
                                                       !.rescheduleNeeded = W.resched]
    /\ hist' = [hist EXCEPT !.preempted = preemptedAfter(@, processTable, processTable',
                                                         global_tick)]
    /\ UNCHANGED <<systemConfig, global_tick, nextPID, schedulerRunning, autoCreateRunning,
                   processTableMutex, mem_mutex, current_process, commandThread, pending,
                   shadow>>

\* The end of the tick: if (rescheduleNeeded) assignReadyToIdleCores(); then
\* the batch creation, if autoCreateRunning and the tick is a multiple of
\* batch_process_freq (lastCreationTick stays 0, so global_tick differs from
\* it) and the wall-clock cooldown of 100 ms has elapsed, which the ticks do
\* not determine: the name is built from nextPID, which is incremented.
\* The tick holds no lock.
TickEnd ==
    /\ schedulerThread.pc = "exec"
    /\ schedulerThread.core >= systemConfig.num_cpu
    /\ \E W \in { IF schedulerThread.rescheduleNeeded
                  THEN assignReadyToIdleCores(SchedState(TRUE))
                  ELSE SchedState(FALSE) } :
         SetSchedState(W)
    /\ \E cooldownElapsed \in BOOLEAN :
         IF /\ autoCreateRunning
            /\ systemConfig.batch_process_freq > 0
            /\ global_tick % systemConfig.batch_process_freq = 0
            /\ global_tick # 0
            /\ cooldownElapsed
            /\ Len(processTable) < MaxProcs
         THEN /\ schedulerThread' = [pc |-> "create", core |-> 0,
                                     rescheduleNeeded |-> FALSE,
                                     name |-> "auto_p" \o ToString(nextPID)]
              /\ nextPID' = nextPID + 1
         ELSE /\ ~cooldownElapsed
              /\ schedulerThread' = [pc |-> "check", core |-> 0,
                                     rescheduleNeeded |-> FALSE, name |-> ""]
              /\ UNCHANGED nextPID
    /\ hist' = [hist EXCEPT !.preempted = preemptedAfter(@, processTable, processTable',
                                                         global_tick)]
    /\ UNCHANGED <<systemConfig, global_tick, schedulerRunning, autoCreateRunning,
                   processTableMutex, mem_mutex, current_process, commandThread, pending,
                   shadow>>

\* The rest of the batch creation: newProc.pid = nextPID - 1, a drawn number
\* of drawn instructions, a drawn memory size, the page table, and the
\* push_back, with no lock and no look at the names in the table.
BatchCreate ==
    /\ schedulerThread.pc = "create"
    /\ \E count \in insCounts,
          memSize \in systemConfig.min_mem_per_proc .. systemConfig.max_mem_per_proc :
         \E instructions \in generateDummyInstructions(count, memSize) :
            processTable' = Append(processTable,
                NewProcess(schedulerThread.name, nextPID - 1, memSize, instructions))
    /\ hist' = [hist EXCEPT !.created = Append(@, global_tick)]
    /\ schedulerThread' = [pc |-> "check", core |-> 0, rescheduleNeeded |-> FALSE,
                           name |-> ""]
    /\ UNCHANGED <<systemConfig, frame_table, ram, backing_store, stats, global_tick,
                   cpuCores, rrCursor, nextPID, schedulerRunning, autoCreateRunning,
                   processTableMutex, mem_mutex, current_process, commandThread, pending,
                   shadow>>

\* The loop finds no READY, RUNNING or SLEEPING process, auto-creation is
\* off, and it sleeps 50 ms.
DriverIdle ==
    /\ schedulerThread.pc = "top"
    /\ processTableMutex = "free"
    /\ ~(shouldTick \/ autoCreateRunning)
    /\ schedulerThread' = [schedulerThread EXCEPT !.pc = "check"]
    /\ UNCHANGED <<systemConfig, processTable, frame_table, ram, backing_store, stats,
                   global_tick, cpuCores, rrCursor, nextPID, schedulerRunning, autoCreateRunning,
                   processTableMutex, mem_mutex, current_process, commandThread, pending, hist,
                   shadow>>

\* bool allFinished of the halt test: the table is not empty and every
\* process is FINISHED.
allFinished ==
    /\ Len(processTable) > 0
    /\ \A i \in 1..Len(processTable) : processTable[i].state = "FINISHED"

\* The halt test at the end of the loop body, under processTableMutex: when
\* allFinished && !autoCreateRunning.load() holds the thread goes on, still
\* under the lock, to stop itself.
DriverCheck ==
    /\ schedulerThread.pc = "check"
    /\ processTableMutex = "free"
    /\ IF allFinished /\ ~autoCreateRunning
       THEN /\ schedulerThread' = [schedulerThread EXCEPT !.pc = "halt"]
            /\ processTableMutex' = "sched"
       ELSE /\ schedulerThread' = [schedulerThread EXCEPT !.pc = "top"]
            /\ UNCHANGED processTableMutex
    /\ UNCHANGED <<systemConfig, processTable, frame_table, ram, backing_store, stats,
                   global_tick, cpuCores, rrCursor, nextPID, schedulerRunning, autoCreateRunning,
                   mem_mutex, current_process, commandThread, pending, hist, shadow>>

\* schedulerRunning.store(false); shouldStop = true; the lock is released
\* and the thread leaves its loop.
DriverHalt ==
    /\ schedulerThread.pc = "halt"
    /\ schedulerRunning' = FALSE
    /\ schedulerThread' = [schedulerThread EXCEPT !.pc = "off"]
    /\ processTableMutex' = "free"
    /\ UNCHANGED <<systemConfig, processTable, frame_table, ram, backing_store, stats,
                   global_tick, cpuCores, rrCursor, nextPID, autoCreateRunning,
                   mem_mutex, current_process, commandThread, pending, hist, shadow>>

Next ==
    \/ Create
    \/ SchedulerCommand
    \/ ExitScreen
    \/ StepFetch
    \/ StepExec
    \/ TickBegin
    \/ TickExec
    \/ TickEnd
    \/ BatchCreate
    \/ DriverIdle
    \/ DriverCheck
    \/ DriverHalt

Spec == Init /\ [][Next]_vars

----------------------------------------------------------------------------
(* Lock-level specification: the lock and unlock operations of each
   execution path, in program order, for the scheduler thread and the
   command thread.  A std::lock_guard locks where it is declared and unlocks
   at the end of its scope; std::mutex is not recursive. *)

Lock(m) == [op |-> "lock", m |-> m]

Unlock(m) == [op |-> "unlock", m |-> m]

\* MemoryManager::access: mem_mutex for the whole call; processTableMutex to
\* find the process; on a page fault, processTableMutex in evictVictim (when
\* no frame is free) and again in handlePageFault to update the page table.
accessLocks(kind) ==
    <<Lock("mem"), Lock("table"), Unlock("table")>>
      \o (IF kind = "evict" THEN <<Lock("table"), Unlock("table")>> ELSE <<>>)
      \o (IF kind \in {"fault", "evict"} THEN <<Lock("table"), Unlock("table")>> ELSE <<>>)
      \o <<Unlock("mem")>>

AccessKinds == {"hit", "fault", "evict"}

\* MemoryManager::isPageResident
isPageResidentLocks == <<Lock("mem"), Lock("table"), Unlock("table"), Unlock("mem")>>

\* One iteration of the scheduler thread's loop: the shouldTick test under
\* processTableMutex, scheduler_loop_tick with no lock of its own around the
\* accesses of the instruction it executes, the halt test under
\* processTableMutex.
schedulerLoopLocks(accesses) ==
    <<Lock("table"), Unlock("table")>> \o accesses \o <<Lock("table"), Unlock("table")>>

\* screen -s / screen -c: initializePageTable under mem_mutex, then the
\* insertion under processTableMutex.
createLocks == <<Lock("mem"), Unlock("mem"), Lock("table"), Unlock("table")>>

\* step: the instruction executes inside the processTableMutex scope.
stepLocks(accesses) == <<Lock("table")>> \o accesses \o <<Unlock("table")>>

\* process-smi: the copy under processTableMutex, then for a variable
\* isPageResident and access.
processSmiLocks ==
    <<Lock("table"), Unlock("table")>> \o isPageResidentLocks \o accessLocks("hit")

SchedulerPaths ==
    {schedulerLoopLocks(<<>>)} \cup {schedulerLoopLocks(accessLocks(k)) : k \in AccessKinds}

CommandPaths ==
    {createLocks, processSmiLocks, stepLocks(<<>>), stepLocks(accessLocks("hit"))}

LockInit ==
    /\ systemConfig = ScWrite.config
    /\ processTable = <<>>
    /\ frame_table = [i \in Frames |-> NewFTE]
    /\ ram = [x \in 0..(total_frames * frame_size - 1) |-> 0]
    /\ backing_store = <<>>
    /\ stats = [pages_paged_in |-> 0, pages_paged_out |-> 0]
    /\ global_tick = 0
    /\ cpuCores = [c \in Cores |-> [running |-> 0, quantum_left |-> 0]]
    /\ rrCursor = 0
    /\ nextPID = 1
    /\ schedulerRunning = TRUE
    /\ autoCreateRunning = FALSE
    /\ schedulerThread = [pc |-> "loop", ops |-> <<>>]
    /\ processTableMutex = "free"
    /\ mem_mutex = "free"
    /\ current_process = ""
    /\ commandThread = [pc |-> "prompt", ops |-> <<>>]
    /\ pending = <<>>
    /\ hist = [created |-> <<>>, steps |-> 0, preempted |-> <<>>]
    /\ shadow = <<>>

\* Thread th performs lock operation o: a lock is granted only when the
\* mutex is free, also when th itself is the owner.
doLockOp(th, o) ==
    /\ IF o.op = "lock"
       THEN (IF o.m = "table" THEN processTableMutex ELSE mem_mutex) = "free"
       ELSE (IF o.m = "table" THEN processTableMutex ELSE mem_mutex) = th
    /\ processTableMutex' = IF o.m = "table"
                            THEN (IF o.op = "lock" THEN th ELSE "free")
                            ELSE processTableMutex
    /\ mem_mutex' = IF o.m = "mem"
                    THEN (IF o.op = "lock" THEN th ELSE "free")
                    ELSE mem_mutex

\* The scheduler thread starts a loop iteration.
SchedulerPath ==
    /\ schedulerThread.ops = <<>>
    /\ \E path \in SchedulerPaths : schedulerThread' = [schedulerThread EXCEPT !.ops = path]
    /\ UNCHANGED <<systemConfig, processTable, frame_table, ram, backing_store, stats,
                   global_tick, cpuCores, rrCursor, nextPID, schedulerRunning, autoCreateRunning,
                   processTableMutex, mem_mutex, current_process, commandThread, pending,
                   hist, shadow>>

\* The scheduler thread's next lock operation.
SchedulerLockStep ==
    /\ schedulerThread.ops # <<>>
    /\ doLockOp("sched", Head(schedulerThread.ops))
    /\ schedulerThread' = [schedulerThread EXCEPT !.ops = Tail(@)]
    /\ UNCHANGED <<systemConfig, processTable, frame_table, ram, backing_store, stats,
                   global_tick, cpuCores, rrCursor, nextPID, schedulerRunning, autoCreateRunning,
                   current_process, commandThread, pending, hist, shadow>>

\* The user types a command.
CommandPath ==
    /\ commandThread.ops = <<>>
    /\ \E path \in CommandPaths : commandThread' = [commandThread EXCEPT !.ops = path]
    /\ UNCHANGED <<systemConfig, processTable, frame_table, ram, backing_store, stats,
                   global_tick, cpuCores, rrCursor, nextPID, schedulerRunning, autoCreateRunning,
                   schedulerThread, processTableMutex, mem_mutex, current_process,
                   pending, hist, shadow>>

\* The command thread's next lock operation.
CommandLockStep ==
    /\ commandThread.ops # <<>>
    /\ doLockOp("cmd", Head(commandThread.ops))
    /\ commandThread' = [commandThread EXCEPT !.ops = Tail(@)]
    /\ UNCHANGED <<systemConfig, processTable, frame_table, ram, backing_store, stats,
                   global_tick, cpuCores, rrCursor, nextPID, schedulerRunning, autoCreateRunning,
                   schedulerThread, current_process, pending, hist, shadow>>

LockNext == SchedulerPath \/ SchedulerLockStep \/ CommandPath \/ CommandLockStep

SpecLock == LockInit /\ [][LockNext]_vars

----------------------------------------------------------------------------
(* Memory-level specification: any process issues any access at any tick *)

\* Memory configurations: one or two frames of two bytes.
MemConfigs ==
    { [num_cpu |-> 1, scheduler |-> "rr", quantum_cycles |-> 2,
       batch_process_freq |-> 1,
       max_overall_mem |-> m, mem_per_frame |-> 2] : m \in {2, 4} }

\* pid 1 has four bytes (two pages), pid 2 has two bytes (one page).
MemProcSize(pid) == IF pid = 1 THEN 4 ELSE 2

MemPids == {1, 2}

\* The values the memory-level accesses write.
MemVals == {0, 1}

\* The addresses the memory-level accesses write: one in each page, and the
\* first address out of bounds.
MemWriteAddrs(pid) == IF pid = 1 THEN {1, 2, 4} ELSE IF pid = 2 THEN {0, 2} ELSE {0}

MemInit ==
    /\ systemConfig \in MemConfigs
    /\ processTable = << NewProcess("p", 1, MemProcSize(1), <<>>),
                       NewProcess("p", 2, MemProcSize(2), <<>>) >>
    /\ frame_table = [i \in Frames |-> NewFTE]
    /\ ram = [x \in 0..(total_frames * frame_size - 1) |-> 0]
    /\ backing_store = <<>>
    /\ stats = [pages_paged_in |-> 0, pages_paged_out |-> 0]
    /\ global_tick = 0
    /\ cpuCores = [c \in Cores |-> [running |-> 0, quantum_left |-> 0]]
    /\ rrCursor = 0
    /\ nextPID = 3
    /\ schedulerRunning = FALSE
    /\ autoCreateRunning = FALSE
    /\ schedulerThread = [pc |-> "off", core |-> 0, rescheduleNeeded |-> FALSE, name |-> ""]
    /\ processTableMutex = "free"
    /\ mem_mutex = "free"
    /\ current_process = ""
    /\ commandThread = [pc |-> "prompt", target |-> 0, fetched |-> <<>>]
    /\ pending = <<>>
    /\ hist = [created |-> <<0, 0>>, steps |-> 0, preempted |-> <<>>]
    /\ shadow = [p \in MemPids |-> [a \in 0..(MemProcSize(p) - 1) |-> 0]]

\* One call of access, by an existing or an unknown pid, in or out of bounds.
MemAccess ==
    \E pid \in MemPids \cup {3}, addr \in 0..4, write \in BOOLEAN, v \in MemVals :
      /\ IF pid \in MemPids THEN addr <= MemProcSize(pid) ELSE addr = 0
      /\ write => addr \in MemWriteAddrs(pid)
      /\ (~write) => v = 0
      /\ \E r \in {access(MemState, pid, addr, write, v)} :
           /\ r.M.stats.pages_paged_in <= MaxPagedIn
           /\ SetMemState(r.M)
           /\ shadow' = IF write /\ r.ok
                        THEN [shadow EXCEPT ![pid][addr] = v] ELSE shadow
           /\ UNCHANGED <<systemConfig, global_tick, cpuCores, rrCursor, nextPID,
                          schedulerRunning, autoCreateRunning, schedulerThread, processTableMutex, mem_mutex,
                          current_process, commandThread, pending, hist>>

\* The scheduler's global_tick++ as seen by the memory manager.
MemClock ==
    /\ global_tick < MemMaxTick
    /\ global_tick' = global_tick + 1
    /\ UNCHANGED <<systemConfig, processTable, frame_table, ram, backing_store,
                   stats, cpuCores, rrCursor, nextPID, schedulerRunning, autoCreateRunning,
                   schedulerThread, processTableMutex, mem_mutex, current_process, commandThread,
                   pending, hist, shadow>>

MemNext == MemAccess \/ MemClock

SpecMem == MemInit /\ [][MemNext]_vars

----------------------------------------------------------------------------
(* Inspection specification: process-smi of the attached process, typed
   while the scheduler ticks.  The command copies the process under
   processTableMutex and then, for each variable of the copy, calls
   isPageResident and, if the page is resident, access. *)

\* The number of process-smi commands typed.
MaxSmi == 2

\* Two processes of one page each and one frame; the console stays attached
\* to the second.
ScSmi ==
    [config |-> [num_cpu |-> 1, scheduler |-> "rr", quantum_cycles |-> 1,
                 batch_process_freq |-> 1, min_ins |-> 1, max_ins |-> 1,
                 max_overall_mem |-> 4, mem_per_frame |-> 4,
                 min_mem_per_proc |-> 4, max_mem_per_proc |-> 4],
     programs |-> << Program("Q1", 4, << DECLARE("a", 1), ADD("a", Var("a"), Lit(1)) >>),
                     Program("Q2", 4, << DECLARE("y", 9), PRINT(<<Var("y")>>) >>) >>]

\* bool MemoryManager::isPageResident(int pid, int virtual_addr)
isPageResident(M, pid, virtual_addr) ==
    LET pi == FindPid(M.T, pid)
        page_num == virtual_addr \div frame_size
    IN /\ pi # 0
       /\ page_num \in DOMAIN M.T[pi].page_table
       /\ M.T[pi].page_table[page_num].valid

SmiInit ==
    /\ systemConfig = ScSmi.config
    /\ pending = ScSmi.programs
    /\ processTable = <<>>
    /\ frame_table = [i \in Frames |-> NewFTE]
    /\ ram = [x \in 0..(total_frames * frame_size - 1) |-> 0]
    /\ backing_store = <<>>
    /\ stats = [pages_paged_in |-> 0, pages_paged_out |-> 0]
    /\ global_tick = 0
    /\ cpuCores = [c \in Cores |-> [running |-> 0, quantum_left |-> 0]]
    /\ rrCursor = 0
    /\ nextPID = 1
    /\ schedulerRunning = FALSE
    /\ autoCreateRunning = FALSE
    /\ schedulerThread = [pc |-> "off", core |-> 0, rescheduleNeeded |-> FALSE, name |-> ""]
    /\ processTableMutex = "free"
    /\ mem_mutex = "free"
    /\ current_process = ""
    /\ commandThread = [pc |-> "prompt", target |-> 0, fetched |-> <<>>]
    /\ hist = [created |-> <<>>, steps |-> 0, preempted |-> <<>>, smis |-> 0]
    /\ shadow = <<>>

\* process-smi, the copy: procSnapshot = *proc under processTableMutex.  Of
\* the copy the command uses the pid and the addresses of the symbol table.
SmiSnapshot ==
    /\ commandThread.pc = "prompt"
    /\ current_process # ""
    /\ processTableMutex = "free"
    /\ hist.smis < MaxSmi
    /\ hist' = [hist EXCEPT !.smis = @ + 1]
    /\ LET pi == findProcess(processTable, current_process)
       IN IF pi # 0
          THEN commandThread' =
                 [pc |-> "smi", target |-> pi, fetched |-> <<>>,
                  pid |-> processTable[pi].pid,
                  addrs |-> { processTable[pi].symbol_table[n] :
                                n \in DOMAIN processTable[pi].symbol_table },
                  addr |-> 0]
          ELSE UNCHANGED commandThread
    /\ UNCHANGED <<systemConfig, processTable, frame_table, ram, backing_store, stats,
                   global_tick, cpuCores, rrCursor, nextPID, schedulerRunning,
                   autoCreateRunning, schedulerThread, processTableMutex, mem_mutex,
                   current_process, pending, shadow>>

\* The next variable of the copy: if (memoryManager->isPageResident(pid,
\* addr)); a page that is not resident is shown as [Swapped Out].
SmiResident ==
    /\ commandThread.pc = "smi"
    /\ processTableMutex = "free"
    /\ mem_mutex = "free"
    /\ \E a \in commandThread.addrs :
         commandThread' =
           [commandThread EXCEPT
              !.addrs = @ \ {a},
              !.addr = a,
              !.pc = IF isPageResident(MemState, commandThread.pid, a)
                     THEN "smi_read" ELSE "smi"]
    /\ UNCHANGED <<systemConfig, processTable, frame_table, ram, backing_store, stats,
                   global_tick, cpuCores, rrCursor, nextPID, schedulerRunning,
                   autoCreateRunning, schedulerThread, processTableMutex, mem_mutex,
                   current_process, pending, hist, shadow>>

\* memoryManager->access(procSnapshot.pid, addr, false, val) for the variable
\* whose page isPageResident found resident.
SmiRead ==
    /\ commandThread.pc = "smi_read"
    /\ processTableMutex = "free"
    /\ mem_mutex = "free"
    /\ \E r \in {access(MemState, commandThread.pid, commandThread.addr, FALSE, 0)} :
         SetMemState(r.M)
    /\ commandThread' = [commandThread EXCEPT !.pc = "smi"]
    /\ UNCHANGED <<systemConfig, global_tick, cpuCores, rrCursor, nextPID,
                   schedulerRunning, autoCreateRunning, schedulerThread, processTableMutex,
                   mem_mutex, current_process, pending, hist, shadow>>

\* The variables are done: the logs are printed and the command returns.
SmiEnd ==
    /\ commandThread.pc = "smi"
    /\ commandThread.addrs = {}
    /\ commandThread' = [pc |-> "prompt", target |-> 0, fetched |-> <<>>]
    /\ UNCHANGED <<systemConfig, processTable, frame_table, ram, backing_store, stats,
                   global_tick, cpuCores, rrCursor, nextPID, schedulerRunning,
                   autoCreateRunning, schedulerThread, processTableMutex, mem_mutex,
                   current_process, pending, hist, shadow>>

SmiNext ==
    \/ Create
    \/ ExitScreen
    \/ TickBegin
    \/ TickExec
    \/ TickEnd
    \/ DriverCheck
    \/ DriverHalt
    \/ SmiSnapshot
    \/ SmiResident
    \/ SmiRead
    \/ SmiEnd

SpecSmi == SmiInit /\ [][SmiNext]_vars

----------------------------------------------------------------------------
(* Rejected accesses: the accesses of SpecMem with the outcome of the last
   call kept in the history *)

\* The last call of access, if any, returned true.
NoRejection == [pid |-> 0, addr |-> 0, err |-> "none"]

\* One frame of two bytes, so that pages are evicted and written back between
\* the rejected calls.
RejInit ==
    /\ systemConfig = [num_cpu |-> 1, scheduler |-> "rr", quantum_cycles |-> 2,
                       batch_process_freq |-> 1,
                       max_overall_mem |-> 2, mem_per_frame |-> 2]
    /\ processTable = << NewProcess("p", 1, MemProcSize(1), <<>>),
                       NewProcess("p", 2, MemProcSize(2), <<>>) >>
    /\ frame_table = [i \in Frames |-> NewFTE]
    /\ ram = [x \in 0..(total_frames * frame_size - 1) |-> 0]
    /\ backing_store = <<>>
    /\ stats = [pages_paged_in |-> 0, pages_paged_out |-> 0]
    /\ global_tick = 0
    /\ cpuCores = [c \in Cores |-> [running |-> 0, quantum_left |-> 0]]
    /\ rrCursor = 0
    /\ nextPID = 3
    /\ schedulerRunning = FALSE
    /\ autoCreateRunning = FALSE
    /\ schedulerThread = [pc |-> "off", core |-> 0, rescheduleNeeded |-> FALSE, name |-> ""]
    /\ processTableMutex = "free"
    /\ mem_mutex = "free"
    /\ current_process = ""
    /\ commandThread = [pc |-> "prompt", target |-> 0, fetched |-> <<>>]
    /\ pending = <<>>
    /\ hist = [created |-> <<0, 0>>, steps |-> 0, preempted |-> <<>>, rejected |-> NoRejection]
    /\ shadow = [p \in MemPids |-> [a \in 0..(MemProcSize(p) - 1) |-> 0]]

\* One call of access as in MemAccess, a write writing 1; the history tells
\* whether the call returned false, and then with which arguments and for
\* which reason.
RejAccess ==
    \E pid \in MemPids \cup {3}, addr \in 0..4, write \in BOOLEAN, v \in MemVals :
      /\ IF pid \in MemPids THEN addr <= MemProcSize(pid) ELSE addr = 0
      /\ write => addr \in MemWriteAddrs(pid)
      /\ v = (IF write THEN 1 ELSE 0)
      /\ \E r \in {access(MemState, pid, addr, write, v)} :
           /\ r.M.stats.pages_paged_in <= MaxPagedIn
           /\ SetMemState(r.M)
           /\ shadow' = IF write /\ r.ok
                        THEN [shadow EXCEPT ![pid][addr] = v] ELSE shadow
           /\ hist' = [hist EXCEPT !.rejected =
                          IF r.ok THEN NoRejection
                          ELSE [pid |-> pid, addr |-> addr, err |-> r.err]]
           /\ UNCHANGED <<systemConfig, global_tick, cpuCores, rrCursor, nextPID,
                          schedulerRunning, autoCreateRunning, schedulerThread, processTableMutex, mem_mutex,
                          current_process, commandThread, pending>>

RejNext == RejAccess \/ MemClock

SpecRej == RejInit /\ [][RejNext]_vars

----------------------------------------------------------------------------
(* Claims about the memory manager *)

\* C1: the frame table and the page tables are in one-to-one correspondence:
\* frame f is occupied with owner (pid, page) exactly when pid's entry for
\* that page is valid with frame_num = f; an entry is valid iff its frame_num
\* is not -1; no two occupied frames hold the same (pid, page).
C1_FramePageCorrespondence ==
    /\ \A f \in Frames :
          frame_table[f].occupied =>
            LET pi == FindPid(processTable, frame_table[f].pid)
                g == frame_table[f].page_num
            IN /\ pi # 0
               /\ g \in DOMAIN processTable[pi].page_table
               /\ processTable[pi].page_table[g].valid
               /\ processTable[pi].page_table[g].frame_num = f
    /\ \A i \in 1..Len(processTable) : \A g \in DOMAIN processTable[i].page_table :
          LET e == processTable[i].page_table[g]
          IN /\ e.valid <=> e.frame_num # NoFrame
             /\ e.valid =>
                   /\ e.frame_num \in Frames
                   /\ frame_table[e.frame_num] =
                        [pid |-> processTable[i].pid, page_num |-> g, occupied |-> TRUE]
    /\ \A f1, f2 \in Frames :
          (/\ frame_table[f1].occupied /\ frame_table[f2].occupied
           /\ frame_table[f1].pid = frame_table[f2].pid
           /\ frame_table[f1].page_num = frame_table[f2].page_num) => f1 = f2

\* C1 witness: with one frame, pid 2's fault has evicted pid 1's page 0 and
\* pid 2 now owns the frame.
C1_Witness ==
    /\ total_frames = 1
    /\ DOMAIN backing_store = {<<1, 0>>, <<2, 0>>}
    /\ frame_table[0] = [pid |-> 2, page_num |-> 0, occupied |-> TRUE]
    /\ ~processTable[1].page_table[0].valid
    /\ processTable[2].page_table[0].valid

\* C2: in every state, for every process and every address below its
\* memory_required, a read succeeds and returns the value last written to
\* that address by that process, or 0 if it was never written, whatever
\* accesses, evictions and reloads happened since the write.
C2_ReadReturnsLastWrite ==
    \A pid \in MemPids : \A a \in 0..(MemProcSize(pid) - 1) :
        LET r == access(MemState, pid, a, FALSE, 0)
        IN r.ok /\ r.value = shadow[pid][a]

\* C2 witness: with one frame, pid 1 wrote 1 to address 1, its page was
\* written back when pid 2 faulted, and it has been loaded again from the
\* backing store (three faults over two pages, one page-out): it is resident
\* and clean, so its next eviction writes nothing back.
C2_Witness ==
    /\ total_frames = 1
    /\ shadow[1][1] = 1
    /\ DOMAIN backing_store = {<<1, 0>>, <<2, 0>>}
    /\ processTable[1].page_table[0].valid
    /\ ~processTable[1].page_table[0].dirty
    /\ backing_store[<<1, 0>>][1] = 1
    /\ stats.pages_paged_in = 3
    /\ stats.pages_paged_out = 1

----------------------------------------------------------------------------
(* Claims about the scheduler and the interpreter *)

\* The step being taken is the tick's execute step for core c, and it
\* executes the instruction at pc of the process at index pi = running(c).
ExecStepOf(c, pi) ==
    /\ schedulerThread.pc = "exec"
    /\ schedulerThread.core = c
    /\ schedulerThread'.core = c + 1
    /\ pi = cpuCores[c].running
    /\ pi # 0
    /\ processTable[pi].state = "RUNNING"
    /\ processTable[pi].pc < Len(processTable[pi].instructions)

\* The instruction the process at index pi is about to execute.
CurrentInstr(pi) == processTable[pi].instructions[processTable[pi].pc + 1]

\* C3: at every instant at most one core's running reference designates a
\* given process, whatever ticks, creations and step commands happened.
C3_OneCorePerProcess ==
    \A c1, c2 \in Cores :
        (c1 # c2 /\ cpuCores[c1].running # 0) => cpuCores[c1].running # cpuCores[c2].running

\* C4: once a process is FINISHED or MEMORY_VIOLATED no step of the
\* scheduler thread or of the command thread changes its state.
C4_TerminalForever ==
    [][\A i \in 1..Len(processTable) :
          processTable[i].state \in {"FINISHED", "MEMORY_VIOLATED"}
            => processTable'[i].state = processTable[i].state]_vars

\* C5: when an instruction executed by a tick has an access rejected by the
\* bounds check of the memory manager, the process is MEMORY_VIOLATED and its
\* core released after the execute step of that tick.
C5_SegvEscalates ==
    [][\A c \in Cores : \A pi \in 1..Len(processTable) :
          (/\ ExecStepOf(c, pi)
           /\ execute(MemState, FALSE, pi, CurrentInstr(pi)).err = "segv")
            => /\ processTable'[pi].state = "MEMORY_VIOLATED"
               /\ cpuCores'[c].running = 0]_vars

\* C6: when a tick executes, for a RUNNING process, a WRITE or READ whose
\* address operand is at or beyond memory_required, the execute step of that
\* tick leaves the process MEMORY_VIOLATED with its pc unchanged and the core
\* that ran it released.
C6_AddressViolation ==
    [][\A c \in Cores : \A pi \in 1..Len(processTable) :
          (/\ ExecStepOf(c, pi)
           /\ CurrentInstr(pi).op \in {"WRITE", "READ"}
           /\ CurrentInstr(pi).addr >= processTable[pi].memory_required)
            => /\ processTable'[pi].state = "MEMORY_VIOLATED"
               /\ processTable'[pi].pc = processTable[pi].pc
               /\ cpuCores'[c].running = 0]_vars

\* C6 witness: with memory_required = 32, W1 has written address 0, then
\* executed WRITE(64, 1): it is MEMORY_VIOLATED at pc 1 and the core is free.
C6_Witness ==
    /\ Len(processTable) = 1
    /\ processTable[1].name = "W1"
    /\ processTable[1].memory_required = 32
    /\ processTable[1].state = "MEMORY_VIOLATED"
    /\ processTable[1].pc = 1
    /\ processTable[1].instructions[2] = WRITE(64, Lit(1))
    /\ cpuCores[0].running = 0
    /\ hist.steps = 0

\* C8: a tick is one critical section: between two steps of the same tick no
\* step of the command thread changes the process table or the clock.
C8_TickIsCriticalSection ==
    [][(schedulerThread.pc = "exec" /\ schedulerThread' = schedulerThread)
          => UNCHANGED <<processTable, global_tick>>]_vars

\* C9: under RR, when the execute step of a tick has run an instruction of a
\* core's process, the quantum is used up and the process neither finished,
\* slept nor violated memory: if another process is READY the process
\* becomes READY, the core is released and rrCursor is the index just past
\* the process; otherwise the process stays RUNNING on the core with
\* quantum_left = quantum_cycles.
C9_QuantumExpiry ==
    [][\A c \in Cores : \A pi \in 1..Len(processTable) :
          (/\ ExecStepOf(c, pi)
           /\ isRR
           /\ cpuCores[c].quantum_left - 1 <= 0
           /\ LET p == execute(MemState, FALSE, pi, CurrentInstr(pi)).M.T[pi]
              IN p.state = "RUNNING" /\ p.pc < Len(p.instructions))
            => IF \E j \in 1..Len(processTable) :
                     j # pi /\ processTable[j].state = "READY"
               THEN /\ processTable'[pi].state = "READY"
                    /\ cpuCores'[c].running = 0
                    /\ rrCursor' = pi % Len(processTable)
               ELSE /\ processTable'[pi].state = "RUNNING"
                    /\ cpuCores'[c].running = pi
                    /\ cpuCores'[c].quantum_left = systemConfig.quantum_cycles]_vars

\* C9 witness: P1 was dispatched when it was alone in the table (rrCursor 0),
\* P2 was created, and P1 has just been preempted at its second instruction:
\* it is READY, the core is free and rrCursor is 1, just past P1.
C9_Witness ==
    /\ Len(processTable) = 2
    /\ processTable[1].name = "P1"
    /\ processTable[1].state = "READY"
    /\ processTable[1].pc = 2
    /\ processTable[2].state = "READY"
    /\ cpuCores[0] = [running |-> 0, quantum_left |-> 2]
    /\ rrCursor = 1
    /\ hist.created = <<0, 1>>
    /\ schedulerThread.pc = "exec"
    /\ schedulerThread.core = 1

\* The scenario of C10: one core, RR with quantum 2, P1 and P2 both created
\* before the first tick, no step command; the fourth tick has ended.
C10_AfterFourTicks ==
    /\ systemConfig = ScRoundRobin.config
    /\ Len(processTable) = 2
    /\ processTable[1].instructions = ScRoundRobin.programs[1].instructions
    /\ processTable[2].instructions = ScRoundRobin.programs[2].instructions
    /\ hist.created = <<0, 0>>
    /\ hist.steps = 0
    /\ global_tick = 4
    /\ schedulerThread.pc \in {"check", "top"}

\* The value of variable name of the process at index pi, read from memory.
ValueOf(pi, name) ==
    access(MemState, processTable[pi].pid, processTable[pi].symbol_table[name],
           FALSE, 0).value

\* C10 (as stated): after exactly 4 ticks P1 has x = 3 and is READY, and P2
\* has run once and is FINISHED.
C10_Original ==
    C10_AfterFourTicks =>
        /\ "x" \in DOMAIN processTable[1].symbol_table
        /\ ValueOf(1, "x") = 3
        /\ processTable[1].state = "READY"
        /\ processTable[2].state = "FINISHED"
        /\ processTable[2].pc = 1

\* C10 (amended): after exactly 4 ticks P1 has x = 3 and is RUNNING on the
\* core with one cycle of its quantum left (it was preempted at the end of
\* tick 2 and dispatched again at the end of tick 3, when P2 finished), and
\* P2 has run once and is FINISHED.
C10_Amended ==
    C10_AfterFourTicks =>
        /\ "x" \in DOMAIN processTable[1].symbol_table
        /\ ValueOf(1, "x") = 3
        /\ processTable[1].state = "RUNNING"
        /\ processTable[1].pc = 3
        /\ cpuCores[0] = [running |-> 1, quantum_left |-> 1]
        /\ processTable[2].state = "FINISHED"
        /\ processTable[2].pc = 1

\* C10 witness: the scenario's state at the end of the fourth tick.
C10_Witness ==
    /\ C10_AfterFourTicks
    /\ processTable[1].state = "RUNNING"
    /\ processTable[2].logs = <<>>
    /\ processTable[2].state = "FINISHED"

----------------------------------------------------------------------------
(* Claims about the locks *)

\* C7: locks are acquired in the order processTableMutex then mem_mutex: no
\* thread requests processTableMutex while it holds mem_mutex.
C7_LockOrder ==
    /\ (schedulerThread.ops # <<>> /\ Head(schedulerThread.ops) = Lock("table"))
          => mem_mutex # "sched"
    /\ (commandThread.ops # <<>> /\ Head(commandThread.ops) = Lock("table"))
          => mem_mutex # "cmd"

----------------------------------------------------------------------------
(* Claims about first come first served, sleeping and FOR *)

\* C11: under FCFS no step takes a RUNNING process back to READY; the core
\* that runs it keeps it, whatever other processes are READY, until the
\* process is SLEEPING, MEMORY_VIOLATED or FINISHED; and with one core no
\* tick executes an instruction of a process while another one is RUNNING.
C11_FcfsKeepsCore ==
    [][systemConfig.scheduler = "fcfs" =>
         /\ \A i \in 1..Len(processTable) :
              processTable[i].state = "RUNNING" =>
                /\ processTable'[i].state # "READY"
                /\ \A c \in Cores :
                     cpuCores[c].running = i =>
                       \/ cpuCores'[c].running = i
                       \/ processTable'[i].state \in
                            {"SLEEPING", "MEMORY_VIOLATED", "FINISHED"}
         /\ \A c \in Cores, j \in 1..Len(processTable) :
              (systemConfig.num_cpu = 1 /\ ExecStepOf(c, j)) =>
                \A i \in 1..Len(processTable) :
                    i # j => processTable[i].state # "RUNNING"]_vars

\* F1 has executed two instructions on the only core while F2, created
\* before F1's second instruction, is READY and has executed nothing.
C11_Witness ==
    /\ systemConfig.scheduler = "fcfs"
    /\ Len(processTable) = 2
    /\ hist.steps = 0
    /\ hist.created[2] <= 1
    /\ cpuCores[0].running = 1
    /\ processTable[1].state = "RUNNING"
    /\ processTable[1].pc = 2
    /\ processTable[2].state = "READY"
    /\ processTable[2].pc = 0

\* The two processes of ScSleepOrder, P1 = [SLEEP(3); PRINT('a')] and
\* P2 = [PRINT('b')], were both created before the first tick and no step
\* command was typed.
SleepOrderRun ==
    /\ Len(processTable) = 2
    /\ processTable[1].instructions = ScSleepOrder.programs[1].instructions
    /\ processTable[2].instructions = ScSleepOrder.programs[2].instructions
    /\ hist.created = <<0, 0>>
    /\ hist.steps = 0

\* C12 as stated: "b" is produced at tick 2 or 3, "a" at tick 5 or later,
\* and "b" before "a".
C12_Original ==
    [][SleepOrderRun =>
         /\ processTable'[2].logs # processTable[2].logs
              => global_tick' \in {2, 3} /\ processTable'[2].logs = <<"b">>
         /\ processTable'[1].logs # processTable[1].logs
              => /\ global_tick' >= 5
                 /\ processTable'[1].logs = <<"a">>
                 /\ processTable[2].logs = <<"b">>]_vars

\* C12, amended: "b" is produced at tick 2 and "a" at tick 4, the tick whose
\* wake step brings sleep_counter from 1 to 0 and whose dispatch and execute
\* steps follow in the same tick; "b" is produced before "a".
C12_Amended ==
    [][SleepOrderRun =>
         /\ processTable'[2].logs # processTable[2].logs
              => global_tick' = 2 /\ processTable'[2].logs = <<"b">>
         /\ processTable'[1].logs # processTable[1].logs
              => /\ global_tick' = 4
                 /\ processTable'[1].logs = <<"a">>
                 /\ processTable[2].logs = <<"b">>]_vars

\* Both entries have been produced.
C12_Witness ==
    /\ SleepOrderRun
    /\ processTable[1].logs = <<"a">>
    /\ processTable[2].logs = <<"b">>
    /\ processTable[1].state = "FINISHED"

\* The scheduler thread is between two ticks.
BetweenTicks == schedulerThread.pc \in {"top", "check", "halt", "off"}

\* The process of ScFor was created before the first tick and no step
\* command was typed, so that it executes in each of the ticks 1, 2, 3, ...
\* until it is FINISHED.
ForRun ==
    /\ Len(processTable) = 1
    /\ processTable[1].name = "L1"
    /\ hist.created = <<0>>
    /\ hist.steps = 0
    /\ BetweenTicks

\* The value of variable name of the process at index pi, 0 if it has no
\* address yet.
ValueOrZero(pi, name) ==
    IF name \in DOMAIN processTable[pi].symbol_table THEN ValueOf(pi, name) ELSE 0

\* C13 as stated: after three ticks in which the process executes, x = 3,
\* pc = 3 and the state is FINISHED.
C13_Original ==
    (ForRun /\ global_tick = 3) =>
        /\ ValueOrZero(1, "x") = 3
        /\ processTable[1].pc = 3
        /\ processTable[1].state = "FINISHED"

\* C13, amended: the first tick only replaces the FOR by three ADDs and
\* leaves pc at 0; after three ticks x = 2, pc = 2 and the process is
\* RUNNING, and after four ticks x = 3, pc = 3 and it is FINISHED.
C13_Amended ==
    /\ (ForRun /\ global_tick = 1) =>
          /\ Len(processTable[1].instructions) = 3
          /\ processTable[1].pc = 0
          /\ ValueOrZero(1, "x") = 0
    /\ (ForRun /\ global_tick = 3) =>
          /\ ValueOrZero(1, "x") = 2
          /\ processTable[1].pc = 2
          /\ processTable[1].state = "RUNNING"
    /\ (ForRun /\ global_tick = 4) =>
          /\ ValueOrZero(1, "x") = 3
          /\ processTable[1].pc = 3
          /\ processTable[1].state = "FINISHED"

\* The end of the fourth tick of the FOR process.
C13_Witness ==
    /\ ForRun
    /\ global_tick = 4
    /\ processTable[1].state = "FINISHED"
    /\ processTable[1].instructions =
          << ADD("x", Var("x"), Lit(1)), ADD("x", Var("x"), Lit(1)),
             ADD("x", Var("x"), Lit(1)) >>

\* C14: with one frame of 16 bytes and the process of 64 bytes running
\* WRITE(0, 7); WRITE(16, 9); READ(z, 0); PRINT(z), the tick that executes
\* the second WRITE leaves pages_paged_out = 1, the tick that executes the
\* READ leaves pages_paged_in = 3, and the PRINT appends "7" to the log.
C14_LruScenario ==
    [][\A c \in Cores :
         ( /\ Len(processTable) = 1
           /\ processTable[1].name = "U1"
           /\ hist.steps = 0
           /\ ExecStepOf(c, 1) ) =>
             /\ CurrentInstr(1) = WRITE(16, Lit(9))
                  => processTable'[1].pc = 2 /\ stats'.pages_paged_out = 1
             /\ CurrentInstr(1) = READ("z", 0)
                  => /\ processTable'[1].pc = 3
                     /\ stats'.pages_paged_in = 3
                     /\ (<<1, 0>> \in DOMAIN backing_store /\ backing_store[<<1, 0>>][0] = 7)
             /\ CurrentInstr(1) = PRINT(<<Var("z")>>)
                  => processTable'[1].logs = <<"7">>]_vars

\* The four instructions have executed.
C14_Witness ==
    /\ Len(processTable) = 1
    /\ processTable[1].name = "U1"
    /\ hist.steps = 0
    /\ processTable[1].logs = <<"7">>
    /\ processTable[1].state = "FINISHED"
    /\ stats = [pages_paged_in |-> 3, pages_paged_out |-> 2]

\* C15: in every state between two ticks, a process has sleep_counter > 0 if
\* and only if its state is SLEEPING.
C15_SleepCounterIffSleeping ==
    BetweenTicks =>
        \A i \in 1..Len(processTable) :
            (processTable[i].sleep_counter > 0) <=> (processTable[i].state = "SLEEPING")

----------------------------------------------------------------------------
(* Claims about termination and creation *)

\* C16: a process becomes FINISHED only in the execute step of the core that
\* runs it, and no process is FINISHED with pc < len(instructions); a
\* RUNNING process that the execute step finds
\* with pc = len(instructions), which includes every process with zero
\* instructions at its first dispatch, becomes FINISHED in that tick and
\* nothing of it or of the memory is executed or changed; and a process
\* whose pc is len(instructions) after its instruction is FINISHED.
C16_FinishedIffPcAtEnd ==
    [][\A i \in 1..Len(processTable) :
         LET p == processTable[i]
             q == processTable'[i]
             execStep(c) == /\ schedulerThread.pc = "exec"
                            /\ schedulerThread.core = c
                            /\ schedulerThread'.core = c + 1
                            /\ cpuCores[c].running = i
                            /\ p.state = "RUNNING"
         IN /\ q.state = "FINISHED" => q.pc >= Len(q.instructions)
            /\ (p.state # "FINISHED" /\ q.state = "FINISHED") =>
                 \E c \in Cores : execStep(c)
            /\ \A c \in Cores :
                 execStep(c) =>
                   /\ p.pc >= Len(p.instructions) =>
                        /\ q = [p EXCEPT !.state = "FINISHED"]
                        /\ cpuCores'[c].running = 0
                        /\ <<ram', backing_store', stats'>> = <<ram, backing_store, stats>>
                   /\ (q.pc >= Len(q.instructions) /\ q.state # "MEMORY_VIOLATED")
                        => q.state = "FINISHED"]_vars

\* C16 as stated: a dispatched process with pc = len(instructions) becomes
\* FINISHED in the tick of its dispatch, so that between two ticks no
\* process is RUNNING with pc = len(instructions).
C16_Original ==
    (BetweenTicks /\ hist.steps = 0) =>
        \A i \in 1..Len(processTable) :
            processTable[i].state = "RUNNING"
                => processTable[i].pc < Len(processTable[i].instructions)

\* A process with zero instructions is FINISHED, nothing executed, and no
\* step command was typed.
C16_Witness ==
    /\ hist.steps = 0
    /\ \E i \in 1..Len(processTable) :
         /\ processTable[i].instructions = <<>>
         /\ processTable[i].state = "FINISHED"
         /\ processTable[i].pc = 0
         /\ processTable[i].logs = <<>>

\* C17: the driver halts only when every process of the table is FINISHED
\* and auto-creation is off, and its halt test then halts it; while a process
\* is READY, RUNNING or SLEEPING every pass of its loop is a tick, and the
\* loop, which locks processTableMutex before and after each tick, never
\* waits for a holder that does not release the mutex.
C17_DriverHaltsWhenDone ==
    /\ [][/\ (schedulerRunning /\ ~schedulerRunning') => schedulerThread.pc = "halt"
          /\ (schedulerThread.pc # "halt" /\ schedulerThread'.pc = "halt")
               => (allFinished /\ ~autoCreateRunning)
          /\ ( /\ schedulerThread.pc = "check"
               /\ schedulerThread'.pc # "check"
               /\ allFinished /\ ~autoCreateRunning ) => schedulerThread'.pc = "halt"
          /\ (schedulerThread.pc = "halt" /\ schedulerThread'.pc # "halt")
               => ~schedulerRunning'
          /\ ( /\ schedulerThread.pc = "top"
               /\ shouldTick
               /\ schedulerThread' # schedulerThread ) => global_tick' = global_tick + 1
         ]_vars
    /\ []((schedulerRunning /\ shouldTick) =>
            ~(processTableMutex = "cmd" /\ commandThread.pc = "blocked"))

----------------------------------------------------------------------------
(* Claims about the bounds of access and about creation *)

\* C18: for an existing process and at least one frame, access succeeds
\* exactly when the address is below memory_required: memory_required - 1
\* succeeds, memory_required fails at the bounds check, and an address in
\* bounds never fails for lack of a frame, whoever occupies the frames.
C18_AccessInBounds ==
    \A pid \in MemPids, write \in BOOLEAN :
      \A addr \in 0..(processTable[FindPid(processTable, pid)].memory_required + 1) :
        \E r \in {access(MemState, pid, addr, write, 1)} :
          \E required \in {processTable[FindPid(processTable, pid)].memory_required} :
            /\ total_frames >= 1
            /\ r.ok <=> addr < required
            /\ (addr = required - 1) => (r.ok /\ r.err = "none")
            /\ (addr >= required) => (r.err = "segv" /\ r.M = MemState)
            /\ (addr < required) => r.err # "fault"

\* Every frame is occupied by a page of process 1, and process 2, which has
\* no page in memory, is granted its last address by an eviction.
C18_Witness ==
    /\ \A i \in Frames : frame_table[i].occupied /\ frame_table[i].pid = 1
    /\ \A g \in DOMAIN processTable[2].page_table : ~processTable[2].page_table[g].valid
    /\ \E r \in {access(MemState, 2, processTable[2].memory_required - 1, TRUE, 1)} :
         /\ r.ok
         /\ r.M.stats.pages_paged_in = stats.pages_paged_in + 1
         /\ \E i \in Frames : r.M.ft[i].pid = 2

\* C19: no two processes in the table ever have the same name, however the
\* creations by the user (screen -s, screen -c) and the batch creations
\* (auto_p<pid>) interleave; and a creation under a name that is in the
\* table is rejected and leaves the process table and nextPID unchanged.
C19_UniqueNames ==
    /\ [](\A i, j \in 1..Len(processTable) :
            i # j => processTable[i].name # processTable[j].name)
    /\ [][( /\ pending # <<>>
            /\ pending' = Tail(pending)
            /\ Head(pending).cmd \in {"screen -c", "screen -s"}
            /\ findProcess(processTable, Head(pending).name) # 0 )
          => (processTable' = processTable /\ nextPID' = nextPID)]_vars

\* C20: every process in the table has a positive pid that no other process
\* in the table has, however the creations by the user on the command thread
\* and the batch creations on the scheduler thread, which both read and
\* increment nextPID, interleave.
C20_UniquePids ==
    /\ \A i \in 1..Len(processTable) : processTable[i].pid > 0
    /\ \A i, j \in 1..Len(processTable) :
         i # j => processTable[i].pid # processTable[j].pid

----------------------------------------------------------------------------
(* Claims about stored values and the symbol table *)

\* The process of the arithmetic scenarios is the only one of its table.
ArithRun == Len(processTable) = 1 /\ processTable[1].name = "A1"

\* C21: every value held in RAM or in the backing store is within
\* [0, 65535]; DECLARE, ADD, SUBTRACT, WRITE and READ saturate and never
\* wrap, so that for all literal operands a and b the parser accepts ADD
\* stores min(a + b, 65535) and SUBTRACT stores max(a - b, 0);
\* clamp_u16(-1) = 0 and clamp_u16(65536) = 65535.  (2^32 stands for itself:
\* with any operand of the scenarios its sum is above 65535.)
C21_Saturate ==
    /\ \A x \in DOMAIN ram : ram[x] \in 0..65535
    /\ \A key \in DOMAIN backing_store :
         \A k \in DOMAIN backing_store[key] : backing_store[key][k] \in 0..65535
    /\ clampUint16(-1) = 0
    /\ clampUint16(65536) = 65535
    /\ ArithRun =>
         \E a \in {processTable[1].instructions[1].op1},
            b \in {processTable[1].instructions[1].op2} :
           /\ processTable[1].pc >= 1 =>
                ValueOrZero(1, "s") =
                    IF a.k = "var" \/ b.k = "var" THEN 65535
                    ELSE IF a.v <= 65535 - b.v THEN a.v + b.v ELSE 65535
           /\ (processTable[1].pc >= 2 /\ a.k = "lit" /\ b.k = "lit") =>
                IF a.v <= b.v THEN ValueOrZero(1, "d") = 0
                ELSE /\ b.v >= 0 \/ a.v <= INT_MAX + b.v
                     /\ ValueOrZero(1, "d") = a.v - b.v

\* The variable an instruction stores to, "" if it stores to none.
Destination(ins) ==
    CASE ins.op = "DECLARE" -> ins.var
      [] ins.op \in {"ADD", "SUBTRACT"} -> ins.target
      [] ins.op = "READ" -> ins.var
      [] OTHER -> ""

\* C22: the value read for a declared variable of a process changes only in
\* a step in which that process executes an instruction with the variable
\* as its destination: no other instruction of the process, in particular no
\* WRITE to a literal address, and no activity of another process changes
\* it.
C22_VariableKeepsValue ==
    [][\A i \in 1..Len(processTable) :
         \A v \in DOMAIN processTable[i].symbol_table :
           ValueOf(i, v)' # ValueOf(i, v) =>
             /\ processTable'[i].pc = processTable[i].pc + 1
             /\ Destination(CurrentInstr(i)) = v]_vars

\* C23: every address recorded in a symbol table lies within page 0, that
\* is below frame_size, for any number of declared variables; and in every
\* step symbol_cursor advances by exactly 2 for each variable that enters
\* the symbol table and not at all otherwise, the recorded addresses
\* staying as they are.
C23_SymbolsInPageZero ==
    /\ [](\A i \in 1..Len(processTable) :
            \A v \in DOMAIN processTable[i].symbol_table :
              processTable[i].symbol_table[v] < frame_size)
    /\ [][\A i \in 1..Len(processTable) :
            /\ processTable'[i].symbol_cursor = processTable[i].symbol_cursor
                 + 2 * Cardinality(DOMAIN processTable'[i].symbol_table
                                     \ DOMAIN processTable[i].symbol_table)
            /\ \A v \in DOMAIN processTable[i].symbol_table :
                 /\ v \in DOMAIN processTable'[i].symbol_table
                 /\ processTable'[i].symbol_table[v] = processTable[i].symbol_table[v]]_vars

----------------------------------------------------------------------------
(* Claims about the paging counters, the clock and the eviction *)

\* The pages a step brings into memory: <<index in the table, page>>.
PagedIn ==
    UNION { { <<i, g>> : g \in { h \in DOMAIN processTable'[i].page_table :
                                  /\ processTable'[i].page_table[h].valid
                                  /\ ~( /\ h \in DOMAIN processTable[i].page_table
                                        /\ processTable[i].page_table[h].valid ) } } :
            i \in 1..Len(processTable) }

\* The pages a step evicts, the dirty ones (TRUE) or the clean ones.
Evicted(dirty) ==
    UNION { { <<i, g>> : g \in { h \in DOMAIN processTable[i].page_table :
                                  /\ processTable[i].page_table[h].valid
                                  /\ processTable[i].page_table[h].dirty = dirty
                                  /\ ~processTable'[i].page_table[h].valid } } :
            i \in 1..Len(processTable) }

\* C24: pages_paged_in >= pages_paged_out in every reachable state; a call
\* of access raises pages_paged_in by exactly one if it services a page
\* fault and not otherwise, and raises pages_paged_out by exactly one if it
\* evicts a dirty page and not at all if it evicts a clean page or none.
C24_PagingCounters ==
    /\ [](stats.pages_paged_in >= stats.pages_paged_out)
    /\ [][/\ stats'.pages_paged_in = stats.pages_paged_in + Cardinality(PagedIn)
          /\ stats'.pages_paged_out = stats.pages_paged_out + Cardinality(Evicted(TRUE))
          /\ Cardinality(PagedIn) <= 1
          /\ Cardinality(Evicted(TRUE) \cup Evicted(FALSE)) <= Cardinality(PagedIn)]_vars

\* Pages were evicted dirty and pages were evicted clean: more pages came in
\* than are in memory or were written back.
C24_Witness ==
    /\ stats.pages_paged_out >= 1
    /\ stats.pages_paged_in >
         stats.pages_paged_out + Cardinality({i \in Frames : frame_table[i].occupied})

\* C25: the clock increases by exactly one in every tick and in no other
\* step; in every reachable state every page-table entry's last_accessed is
\* at most the clock; and every successful access, hit or fault, leaves the
\* accessed entry's last_accessed equal to the clock of that moment.
C25_ClockAndStamps ==
    /\ [][global_tick' =
            IF schedulerThread.pc = "top" /\ schedulerThread'.pc = "exec"
            THEN global_tick + 1 ELSE global_tick]_vars
    /\ [](\A i \in 1..Len(processTable) :
            \A g \in DOMAIN processTable[i].page_table :
              processTable[i].page_table[g].last_accessed <= global_tick)
    /\ [](\A i \in 1..Len(processTable), write \in BOOLEAN :
            \A g \in DOMAIN processTable[i].page_table :
              \E r \in {access(MemState, processTable[i].pid, g * frame_size, write, 1)} :
                r.ok => r.M.T[FindPid(processTable, processTable[i].pid)]
                            .page_table[g].last_accessed = global_tick)

\* An entry accessed in the current tick, the third or a later one, is in
\* memory beside an entry last accessed in an earlier tick.
C25_Witness ==
    /\ global_tick >= 3
    /\ \E i, j \in 1..Len(processTable) :
         \E g \in DOMAIN processTable[i].page_table,
            h \in DOMAIN processTable[j].page_table :
           /\ processTable[i].page_table[g].valid
           /\ processTable[i].page_table[g].last_accessed = global_tick
           /\ processTable[j].page_table[h].valid
           /\ processTable[j].page_table[h].last_accessed \in 1..(global_tick - 1)

\* The last_accessed of the page-table entry that owns frame f.
StampOfFrame(f) ==
    processTable[FindPid(processTable, frame_table[f].pid)]
        .page_table[frame_table[f].page_num].last_accessed

\* C26: a page fault that finds every frame occupied evicts the frame whose
\* owning entry has the smallest last_accessed of all frames, the one of
\* smallest index among equals, and loads the page there; a page fault that
\* finds a free frame uses the free frame of lowest index and evicts
\* nothing.
C26_LruVictim ==
    \A i \in 1..Len(processTable), write \in BOOLEAN :
      \A g \in { h \in DOMAIN processTable[i].page_table :
                   ~processTable[i].page_table[h].valid } :
        \E r \in {access(MemState, processTable[i].pid, g * frame_size, write, 1)} :
          \E used \in {r.M.T[i].page_table[g].frame_num} :
            /\ r.ok
            /\ used \in Frames
            /\ r.M.ft[used] = [pid |-> processTable[i].pid, page_num |-> g, occupied |-> TRUE]
            /\ \A f \in Frames \ {used} : r.M.ft[f] = frame_table[f]
            /\ IF \E f \in Frames : ~frame_table[f].occupied
               THEN /\ ~frame_table[used].occupied
                    /\ \A f \in Frames : f < used => frame_table[f].occupied
                    /\ \A j \in 1..Len(processTable) :
                         \A h \in DOMAIN processTable[j].page_table :
                           processTable[j].page_table[h].valid
                             => r.M.T[j].page_table[h].valid
                    /\ r.M.stats.pages_paged_out = stats.pages_paged_out
               ELSE /\ \A f \in Frames :
                         /\ StampOfFrame(used) <= StampOfFrame(f)
                         /\ StampOfFrame(f) = StampOfFrame(used) => used <= f
                    /\ \E j \in {FindPid(processTable, frame_table[used].pid)} :
                         /\ processTable[j].page_table[frame_table[used].page_num].valid
                         /\ ~r.M.T[j].page_table[frame_table[used].page_num].valid

\* Two occupied frames, the second one accessed less recently than the
\* first, and a page that is not in memory: its fault evicts frame 1.
C26_Witness ==
    /\ total_frames = 2
    /\ \A f \in Frames : frame_table[f].occupied
    /\ StampOfFrame(1) < StampOfFrame(0)
    /\ \E i \in 1..Len(processTable) :
         \E g \in DOMAIN processTable[i].page_table :
           /\ ~processTable[i].page_table[g].valid
           /\ access(MemState, processTable[i].pid, g * frame_size, FALSE, 0)
                .M.T[i].page_table[g].frame_num = 1

\* C27: an eviction changes the backing store only if the victim page is
\* dirty: the entry of a dirty victim becomes the frame's contents and
\* pages_paged_out grows by one, and for a clean victim the backing store
\* and pages_paged_out stay as they are.  In both cases the victim's entry
\* ends with valid = false, frame_num = -1 and dirty = false, and no other
\* page-table entry and no frame's contents change.
C27_EvictionEffect ==
    (\A f \in Frames : frame_table[f].occupied) =>
      \E e \in {evictVictim(MemState)} :
        \E v_pid \in {frame_table[e.frame].pid}, v_page \in {frame_table[e.frame].page_num} :
          \E pi \in {FindPid(processTable, v_pid)} :
            /\ IF processTable[pi].page_table[v_page].dirty
               THEN /\ DOMAIN e.M.bs = DOMAIN backing_store \cup {<<v_pid, v_page>>}
                    /\ \A k \in 0..(frame_size - 1) :
                         e.M.bs[<<v_pid, v_page>>][k] = ram[e.frame * frame_size + k]
                    /\ \A key \in DOMAIN backing_store \ {<<v_pid, v_page>>} :
                         e.M.bs[key] = backing_store[key]
                    /\ e.M.stats.pages_paged_out = stats.pages_paged_out + 1
               ELSE /\ e.M.bs = backing_store
                    /\ e.M.stats.pages_paged_out = stats.pages_paged_out
            /\ e.M.stats.pages_paged_in = stats.pages_paged_in
            /\ e.M.T[pi].page_table[v_page] =
                 [frame_num |-> NoFrame, valid |-> FALSE, dirty |-> FALSE,
                  last_accessed |-> processTable[pi].page_table[v_page].last_accessed]
            /\ \A j \in 1..Len(processTable) :
                 \A h \in DOMAIN processTable[j].page_table :
                   <<j, h>> # <<pi, v_page>> =>
                     e.M.T[j].page_table[h] = processTable[j].page_table[h]
            /\ e.M.ram = ram
            /\ \A f \in Frames \ {e.frame} : e.M.ft[f] = frame_table[f]
            /\ ~e.M.ft[e.frame].occupied

\* Every frame is occupied and the least recently used page is dirty, with
\* contents that differ from its entry in the backing store.
C27_Witness ==
    /\ \A f \in Frames : frame_table[f].occupied
    /\ \E e \in {evictVictim(MemState)} :
         \E key \in {<<frame_table[e.frame].pid, frame_table[e.frame].page_num>>} :
           /\ processTable[FindPid(processTable, key[1])].page_table[key[2]].dirty
           /\ key \in DOMAIN backing_store
           /\ e.M.bs[key] # backing_store[key]

----------------------------------------------------------------------------
(* Claims about sleeping, dispatching and FOR *)

\* The step in which a tick starts: global_tick++, the wake step and the
\* dispatch.
TickStarts == schedulerThread.pc = "top" /\ schedulerThread'.pc = "exec"

\* C28: with no step command typed, a process becomes SLEEPING only by
\* executing SLEEP(n), n >= 0, which sets sleep_counter to n; while
\* SLEEPING it executes no instruction and changes only in the wake step of
\* a tick, which leaves it SLEEPING with one tick less to wait as long as
\* more than one is left and makes it READY (to be dispatched in the same
\* step or later) otherwise: a process that executes SLEEP(n) in tick t
\* becomes READY in the wake step of tick t + n, or of tick t + 1 if n = 0,
\* and no process stays SLEEPING for ever.
C28_SleepWakes ==
    [][hist'.steps = 0 =>
         \A i \in 1..Len(processTable) :
           /\ (processTable[i].state # "SLEEPING" /\ processTable'[i].state = "SLEEPING") =>
                /\ processTable[i].pc < Len(processTable[i].instructions)
                /\ CurrentInstr(i).op = "SLEEP"
                /\ processTable'[i].sleep_counter = CurrentInstr(i).duration
                /\ processTable'[i].pc = processTable[i].pc + 1
           /\ (processTable[i].state = "SLEEPING" /\ ~TickStarts) =>
                /\ processTable'[i].state = "SLEEPING"
                /\ processTable'[i].pc = processTable[i].pc
                /\ processTable'[i].sleep_counter = processTable[i].sleep_counter
           /\ (processTable[i].state = "SLEEPING" /\ TickStarts) =>
                IF processTable[i].sleep_counter <= 1
                THEN /\ processTable'[i].state \in {"READY", "RUNNING"}
                     /\ processTable'[i].sleep_counter = 0
                ELSE /\ processTable'[i].state = "SLEEPING"
                     /\ processTable'[i].sleep_counter = processTable[i].sleep_counter - 1
                     /\ processTable'[i].pc = processTable[i].pc]_vars

\* The offsets from rrCursor, wrapping round, at which a READY process is.
ReadyOffsets ==
    { o \in 0..(Len(processTable) - 1) :
        processTable[((rrCursor + o) % Len(processTable)) + 1].state = "READY" }

\* C29: under RR a dispatch to an idle core chooses the first READY process
\* of the circular scan of the table from rrCursor, makes it RUNNING on that
\* core with quantum_left = quantum_cycles and sets rrCursor to
\* (chosen index + 1) mod N; if no process is READY the core stays idle and
\* rrCursor, the table and the cores are unchanged.
C29_RoundRobinDispatch ==
    (isRR /\ Len(processTable) > 0) =>
      \A c \in Cores :
        cpuCores[c].running = 0 =>
          \E W \in {assignCore(SchedState(FALSE), c)} :
            IF ReadyOffsets = {}
            THEN /\ W.cores = cpuCores
                 /\ W.rr = rrCursor
                 /\ W.M = MemState
            ELSE \E o \in ReadyOffsets :
                   \E idx \in {(rrCursor + o) % Len(processTable)} :
                     /\ \A q \in ReadyOffsets : o <= q
                     /\ W.cores = [cpuCores EXCEPT ![c] =
                            [running |-> idx + 1,
                             quantum_left |-> systemConfig.quantum_cycles]]
                     /\ W.M.T = [processTable EXCEPT ![idx + 1].state = "RUNNING"]
                     /\ W.rr = (idx + 1) % Len(processTable)

\* A core is idle, the cursor is not at the head of the table, the process
\* under the cursor is not READY and the first READY process of the scan is
\* found after wrapping round.
C29_Witness ==
    /\ isRR
    /\ Len(processTable) >= 2
    /\ rrCursor > 0
    /\ \E c \in Cores : cpuCores[c].running = 0
    /\ ReadyOffsets # {}
    /\ \A o \in ReadyOffsets : o > 0 /\ rrCursor + o >= Len(processTable)

\* The step in which the tick executes the instruction at pc of process i,
\* RUNNING on the core whose turn it is.
TickExecutes(i) ==
    /\ schedulerThread.pc = "exec"
    /\ schedulerThread.core < systemConfig.num_cpu
    /\ schedulerThread'.core = schedulerThread.core + 1
    /\ cpuCores[schedulerThread.core].running = i
    /\ processTable[i].state = "RUNNING"
    /\ processTable[i].pc < Len(processTable[i].instructions)

\* The step in which the step command executes the instruction it fetched
\* from process i.
StepExecutes(i) ==
    /\ commandThread.pc = "step"
    /\ commandThread.target = i
    /\ commandThread'.pc = "prompt"

\* C30: executing FOR([body], r) at position pc replaces that instruction by
\* r consecutive copies of the parsed body: the instructions before pc and
\* after the FOR are unchanged, the length becomes len - 1 + r * |body|, pc
\* is unchanged, and no variable, log or memory state changes in the step;
\* the instruction list of a process changes only when a FOR is executed.
C30_ForExpansion ==
    [][\A i \in 1..Len(processTable) :
         LET p == processTable[i]
             q == processTable'[i]
             n == Len(p.instructions)
             atFor == p.pc < n /\ CurrentInstr(i).op = "FOR"
         IN /\ q.instructions # p.instructions =>
                 \/ TickExecutes(i) /\ atFor
                 \/ StepExecutes(i) /\ commandThread.fetched.op = "FOR"
            /\ (atFor /\ (TickExecutes(i)
                            \/ (StepExecutes(i) /\ commandThread.fetched = CurrentInstr(i)))) =>
                 LET body == CurrentInstr(i).body
                     r == CurrentInstr(i).repeats
                     m == Len(q.instructions)
                 IN /\ m = n - 1 + r * Len(body)
                    /\ SubSeq(q.instructions, 1, p.pc) = SubSeq(p.instructions, 1, p.pc)
                    /\ \A k \in 0..(r - 1) :
                         SubSeq(q.instructions, p.pc + k * Len(body) + 1,
                                p.pc + (k + 1) * Len(body)) = body
                    /\ SubSeq(q.instructions, p.pc + r * Len(body) + 1, m)
                         = SubSeq(p.instructions, p.pc + 2, n)
                    /\ q.pc = p.pc
                    /\ q.logs = p.logs
                    /\ q.symbol_table = p.symbol_table
                    /\ q.symbol_cursor = p.symbol_cursor
                    /\ q.page_table = p.page_table
                    /\ q.sleep_counter = p.sleep_counter
                    /\ UNCHANGED <<ram, backing_store, frame_table, stats>>]_vars

\* The FOR between the PRINTs has been expanded in place and the FOR of zero
\* repeats, the last instruction, has been removed: the process is at the
\* end of the four PRINTs that are left.
C30_Witness ==
    \E i \in 1..Len(processTable) :
        /\ processTable[i].name = "M1"
        /\ processTable[i].pc = 4
        /\ processTable[i].logs # <<>>
        /\ processTable[i].instructions =
             << PRINT(<<Quoted("a")>>), PRINT(<<Quoted("b")>>), PRINT(<<Quoted("b")>>),
                PRINT(<<Quoted("c")>>) >>

----------------------------------------------------------------------------
(* Claims about pc, the step command and the driver *)

\* The address at which instruction ins of process i stores its destination
\* variable: the variable's address, or symbol_cursor for a new variable.
StoreAddr(i, name) ==
    IF name \in DOMAIN processTable[i].symbol_table
    THEN processTable[i].symbol_table[name]
    ELSE processTable[i].symbol_cursor

\* The addresses of the declared variables among the operand tokens.
OperandAddrs(i, tokens) ==
    { processTable[i].symbol_table[t.v] :
        t \in { u \in tokens : u.k = "var" /\ u.v \in DOMAIN processTable[i].symbol_table } }

\* The virtual addresses instruction ins of process i accesses if none of
\* its accesses fails.
AccessAddrs(i, ins) ==
    CASE ins.op = "DECLARE" -> {StoreAddr(i, ins.var)}
      [] ins.op \in {"ADD", "SUBTRACT"} ->
            OperandAddrs(i, {ins.op1, ins.op2}) \cup {StoreAddr(i, ins.target)}
      [] ins.op = "PRINT" -> OperandAddrs(i, {ins.parts[k] : k \in 1..Len(ins.parts)})
      [] ins.op = "WRITE" -> OperandAddrs(i, {ins.val}) \cup {ins.addr}
      [] ins.op = "READ" -> {ins.addr, StoreAddr(i, ins.var)}
      [] OTHER -> {}

\* Every access of instruction ins of process i succeeds: the process is
\* found by its pid and every address is below its memory_required (a page
\* fault is served within the access, there being at least one frame).
AccessesSucceed(i, ins) ==
    \A a \in AccessAddrs(i, ins) :
        /\ a >= 0
        /\ a < processTable[FindPid(processTable, processTable[i].pid)].memory_required
        /\ a < processTable[i].memory_required \/ ins.op \notin {"WRITE", "READ"}
        /\ total_frames > 0

\* What pc of process i is after instruction ins has been executed on it.
PcAfter(i, ins) ==
    CASE ins.op = "SLEEP" -> processTable[i].pc + 1
      [] ins.op = "FOR" -> processTable[i].pc
      [] OTHER -> IF AccessesSucceed(i, ins) THEN processTable[i].pc + 1
                  ELSE processTable[i].pc

\* C31: executing DECLARE, ADD, SUBTRACT, PRINT, WRITE or READ advances pc by
\* exactly 1 if every memory access of the instruction succeeds and leaves
\* pc unchanged if one fails (the bounds check of WRITE and READ counted as
\* a failed access); SLEEP always advances pc by 1; FOR never advances pc.
C31_PcAdvance ==
    [][\A i \in 1..Len(processTable) :
         /\ TickExecutes(i) => processTable'[i].pc = PcAfter(i, CurrentInstr(i))
         /\ StepExecutes(i) => processTable'[i].pc = PcAfter(i, commandThread.fetched)]_vars

\* V1, with 4 bytes, has declared a and b, advancing twice, and has executed
\* DECLARE(c, 3), whose store at address 4 was rejected: c is in the symbol
\* table and pc is still 2.
C31_Witness ==
    \E i \in 1..Len(processTable) :
        /\ processTable[i].name = "V1"
        /\ processTable[i].pc = 2
        /\ "c" \in DOMAIN processTable[i].symbol_table
        /\ processTable[i].symbol_table["c"] >= processTable[i].memory_required

\* C32: in every reachable state every process has 0 <= pc <= the number of
\* its instructions, whatever ticks and step commands were interleaved on it
\* and whatever FOR expansions took place.
C32_PcInBounds ==
    \A i \in 1..Len(processTable) :
        /\ processTable[i].pc >= 0
        /\ processTable[i].pc <= Len(processTable[i].instructions)

\* C33: a step command always returns to the prompt: the command thread is
\* never left waiting, inside MemoryManager::access, for the
\* processTableMutex it locked itself at the start of the command.
C33_StepReturns ==
    ~(commandThread.pc = "blocked" /\ processTableMutex = "cmd")

\* C34: once scheduler start has been typed and has returned, auto-creation
\* takes effect: autoCreateRunning is never true while the driver thread has
\* stopped itself (schedulerRunning false, the thread out of its loop) and
\* no command is in progress or still to be typed that would start it.
C34_StartTakesEffect ==
    ~( /\ autoCreateRunning
       /\ ~schedulerRunning
       /\ schedulerThread.pc = "off"
       /\ commandThread.pc = "prompt"
       /\ pending = <<>> )

----------------------------------------------------------------------------
(* Claims about the cores, the dispatch and the halt *)

\* The step that ends a tick: the reschedule, with the batch creation if
\* there is one.
TickEnds ==
    /\ schedulerThread.pc \in {"exec", "create"}
    /\ schedulerThread'.pc = "check"

\* The cores whose running designates the process at index i.
CoresOf(i) == { c \in Cores : cpuCores[c].running = i }

\* Process and cores agree: a process is RUNNING exactly when one core
\* designates it, and no core designates a process in another state.
CoresMatchStates ==
    /\ \A i \in 1..Len(processTable) :
         IF processTable[i].state = "RUNNING"
         THEN Cardinality(CoresOf(i)) = 1
         ELSE CoresOf(i) = {}
    /\ Cardinality({ i \in 1..Len(processTable) : processTable[i].state = "RUNNING" })
         <= systemConfig.num_cpu

\* C35: at the end of every tick a process is RUNNING iff exactly one core's
\* running designates it, no core designates a READY, SLEEPING, FINISHED or
\* MEMORY_VIOLATED process, and at most num_cpu processes are RUNNING, also
\* when step commands were typed between the ticks.
C35_CoresMatchStates ==
    [][TickEnds => CoresMatchStates']_vars

\* The step in which the tick, its loop over the cores done, reschedules if
\* needed and decides on the batch creation.
Reschedules ==
    /\ schedulerThread.pc = "exec"
    /\ schedulerThread'.pc \in {"create", "check"}

\* Some core is idle while some process is READY.
IdleWhileReady ==
    /\ \E c \in Cores : cpuCores[c].running = 0
    /\ \E i \in 1..Len(processTable) : processTable[i].state = "READY"

\* C36: at the end of each tick's reschedule step, before the batch
\* creation, no core is idle while a process is READY, under RR and under
\* FCFS, whatever happened in the tick.
C36_WorkConserving ==
    [][Reschedules => ~IdleWhileReady']_vars

\* The reschedule at the end of tick 2 has dispatched a process that has not
\* executed yet, to the core from which the tick preempted another process,
\* which is READY.
C36_Witness ==
    /\ hist.steps = 0
    /\ global_tick = 2
    /\ schedulerThread.pc = "check"
    /\ \E i, j \in 1..Len(processTable) :
         /\ processTable[i].state = "READY" /\ processTable[i].pc = 2
         /\ processTable[j].state = "RUNNING" /\ processTable[j].pc = 0
         /\ cpuCores[0].running = j

\* Every process of the table is FINISHED or MEMORY_VIOLATED.
allTerminal ==
    /\ Len(processTable) > 0
    /\ \A i \in 1..Len(processTable) :
         processTable[i].state \in {"FINISHED", "MEMORY_VIOLATED"}

\* C37: with auto-creation off, once every process is FINISHED or
\* MEMORY_VIOLATED the driver halts: its halt test, made in such a state,
\* stops the thread, also when a process is MEMORY_VIOLATED.
C37_HaltsWhenAllTerminal ==
    [][( /\ schedulerThread.pc = "check"
         /\ schedulerThread'.pc # "check"
         /\ allTerminal
         /\ ~autoCreateRunning ) => schedulerThread'.pc = "halt"]_vars

----------------------------------------------------------------------------
(* Claims about process-smi and about rejected accesses *)

\* A step of a process-smi command.
SmiStep ==
    /\ commandThread' # commandThread
    /\ commandThread.pc \in {"smi", "smi_read"} \/ commandThread'.pc = "smi"

\* The valid and dirty flags of every page-table entry.
ResidencyFlags ==
    [i \in 1..Len(processTable) |->
        [g \in DOMAIN processTable[i].page_table |->
            <<processTable[i].page_table[g].valid, processTable[i].page_table[g].dirty>>]]

\* C38: no step of a process-smi command, whatever ticks are interleaved
\* with it, changes the frame table, a valid or dirty flag, the backing
\* store or a paging counter: the command causes no page fault and no
\* eviction.
C38_SmiKeepsResidency ==
    [][SmiStep => /\ UNCHANGED <<frame_table, backing_store, stats>>
                  /\ ResidencyFlags' = ResidencyFlags]_vars


\* A SLEEP occurs in the instruction list, at any depth of FOR.
RECURSIVE HasSleep(_)
HasSleep(instrs) ==
    \E k \in 1..Len(instrs) :
        \/ instrs[k].op = "SLEEP"
        \/ instrs[k].op = "FOR" /\ HasSleep(instrs[k].body)

\* Round robin on one core, and processes that never sleep and have not
\* violated memory.
RoundRobinAlone ==
    /\ isRR
    /\ systemConfig.num_cpu = 1
    /\ \A i \in 1..Len(processTable) :
          /\ processTable[i].state \in {"READY", "RUNNING", "FINISHED"}
          /\ ~HasSleep(processTable[i].instructions)

\* The last tick by whose end the process of the entry is dispatched again.
DispatchBound(e) == e.tick + (e.K - 1) * systemConfig.quantum_cycles

\* C39: under round robin with one core and K >= 2 processes that are READY
\* or RUNNING, never sleep, never violate memory and are all there at the
\* preemption, a process preempted at tick t is dispatched again no later
\* than the end of tick t + (K - 1) * quantum_cycles: while it is still
\* READY, that tick has not ended.
C39_RoundRobinBound ==
    RoundRobinAlone =>
        \A i \in DOMAIN hist.preempted :
            (/\ processTable[i].state = "READY"
             /\ hist.preempted[i].K >= 2
             /\ Len(processTable) = hist.preempted[i].n)
            => \/ global_tick < DispatchBound(hist.preempted[i])
               \/ /\ global_tick = DispatchBound(hist.preempted[i])
                  /\ ~BetweenTicks

\* Three processes: the preempted one is still READY in the last tick of the
\* bound, after the two others have each had the core for a quantum.
C39_Witness ==
    /\ RoundRobinAlone
    /\ \E i \in DOMAIN hist.preempted :
          /\ processTable[i].state = "READY"
          /\ hist.preempted[i].K = 3
          /\ Len(processTable) = hist.preempted[i].n
          /\ global_tick = DispatchBound(hist.preempted[i])
          /\ \A j \in 1..Len(processTable) : j # i => processTable[j].pc >= 1


\* The last step was a call of access that returned false.
AccessRejected ==
    /\ hist'.rejected # NoRejection
    /\ global_tick' = global_tick

\* C40: a call of access rejected as a segmentation fault (virtual_addr >=
\* memory_required) or for an unknown pid leaves RAM, the frame table, every
\* page table (no entry created, no last_accessed changed), the backing
\* store and both paging counters as they were; and these two are the only
\* reasons of a rejection.
C40_RejectedAccessChangesNothing ==
    /\ [][AccessRejected =>
            UNCHANGED <<ram, frame_table, processTable, backing_store, stats>>]_vars
    /\ [](hist.rejected # NoRejection =>
            \/ /\ hist.rejected.err = "nopid"
               /\ FindPid(processTable, hist.rejected.pid) = 0
            \/ /\ hist.rejected.err = "segv"
               /\ FindPid(processTable, hist.rejected.pid) # 0
               /\ hist.rejected.addr >=
                    processTable[FindPid(processTable, hist.rejected.pid)].memory_required)

\* A segmentation fault has just been rejected while the frame holds a dirty
\* page stamped at an earlier tick and the backing store holds an evicted one.
C40_Witness ==
    /\ hist.rejected.err = "segv"
    /\ backing_store # <<>>
    /\ stats.pages_paged_out > 0
    /\ \E i \in 1..Len(processTable) : \E g \in DOMAIN processTable[i].page_table :
          /\ processTable[i].page_table[g].valid
          /\ processTable[i].page_table[g].dirty
          /\ processTable[i].page_table[g].last_accessed < global_tick

====
